---- MODULE Spec2Model ----
(***************************************************************************)
(* Roundtable analysis orchestration: the retry loop of                    *)
(* ClaudeCodeBackend.run_analysis, the unit executor and job orchestrator  *)
(* of AnalysisService, the status aggregation, and the start / retry       *)
(* request handlers of api/sessions.py.                                    *)
(*                                                                         *)
(* Persisted state is modelled at commit granularity: every db.commit()    *)
(* of the source ends one step, so every state of the model is a state a   *)
(* reader of the database can observe.                                     *)
(***************************************************************************)
EXTENDS Integers, Sequences, FiniteSets, TLC

VARIABLES
    personas,   \* persona_profiles table: persona id -> "system" | "custom" | "absent"
    selected,   \* Session.selected_persona_ids
    status,     \* Session.status
    analyses,   \* analyses table of the session, rows in insertion order
    run,        \* the background task running analyze_document
    retry,      \* the retry_analysis request / retry_failed_analysis call
    http,       \* response of the last request handler that returned
    runs,       \* number of analyze_document tasks created so far
    ra,         \* a bare run_analysis call (SpecRetry)
    agg,    \* inputs and outputs of the two status aggregations (SpecAgg)
    prompt, \* arguments and result of _build_prompt (SpecPrompt)
    registry, \* arguments and results of AIBackendFactory (SpecRegistry)
    modes,  \* analyze_document once per value of sequential, side by side
    tasks,  \* overlapping analyze_document tasks and a retry call (SpecOverlap)
    access      \* the session row's owner and share list, and the request being served (SpecAccess)

vars == <<personas, selected, status, analyses, run, retry, http, runs, ra, agg, prompt, registry, modes, tasks, access>>

----------------------------------------------------------------------------
(* Bounds of the model *)

MaxPersonas == 2
MaxRuns == 2
MaxRows == 2
MaxM == 3
MaxAggUnits == 3
MaxTasks == 2

MaxOver == 50

(* Program constants *)

AI_RETRY_ATTEMPTS == 3
PROMPT_TEXT_LIMIT == 8000

----------------------------------------------------------------------------
(* Values *)

UnitStatuses == {"pending", "running", "completed", "failed"}
TerminalStatuses == {"completed", "failed"}
JobStatuses == {"uploaded", "analyzing", "completed", "partial", "failed"}

None == "None"

\* An exception message: its text, the stderr text it quotes, and the attempt
\* counts it mentions (no message built by the source mentions one).
Msg(text, stderr) == [text |-> text, stderr |-> stderr, attempts |-> {}]

NoError == Msg(None, "")
TimeoutMsg == Msg("Analysis timed out after all retries", "")
ExhaustedMsg == Msg("Failed after all retries", "")
ParseMsg == Msg("Could not parse JSON response", "")
JSONDecodeMsg == Msg("JSONDecodeError", "")
NotFoundMsg == Msg("FileNotFoundError", "")
AttributeMsg == Msg("AttributeError: object has no attribute 'get'", "")
ProcessMsg(stderr) ==
    Msg("Claude Code failed: ", IF stderr # "" THEN stderr ELSE "Unknown error")

----------------------------------------------------------------------------
(* The external process of one attempt, as the attempt observes it *)

\* The texts a process can write to stdout: a JSON document (an object with
\* the requested keys, an object without them, an array), text with one
\* fenced block that holds a JSON object or that holds no JSON, text with two
\* fenced blocks of which only the second holds a JSON object, and text
\* with no fence and no JSON.
Stdouts ==
    {"json_object", "json_object_sparse", "json_array",
     "fenced_json", "fenced_garbage", "fenced_garbage_fenced_json", "garbage"}

Stderrs == {"", "stderr text"}

\* What asyncio.wait_for(process.communicate(), AI_TIMEOUT) can end with.
ProcOutcomes ==
    {[timed_out |-> TRUE, returncode |-> 0, stdout |-> "garbage", stderr |-> ""]}
    \cup
    {[timed_out |-> FALSE, returncode |-> rc, stdout |-> so, stderr |-> se] :
        rc \in {0, 1}, so \in Stdouts, se \in Stderrs}

\* json.loads: the value parsed ("full": an object with the requested keys,
\* "sparse": an object without them, "nondict": any other JSON value) or the
\* JSONDecodeError it raises.
json_loads(text) ==
    CASE text = "json_object" -> "full"
      [] text = "json_object_sparse" -> "sparse"
      [] text = "json_array" -> "nondict"
      [] OTHER -> "JSONDecodeError"

\* re.search(r'```(?:json)?\s*\n?(.*?)\n?```', ...): group 1 of the leftmost
\* match, which is the content of the first fenced block, or None.
fence_search(text) ==
    CASE text = "fenced_json" -> "json_object"
      [] text = "fenced_garbage" -> "garbage"
      [] text = "fenced_garbage_fenced_json" -> "garbage"
      [] OTHER -> None

Ok(payload) == [kind |-> "ok", payload |-> payload, err |-> NoError]
Raised(kind, err) == [kind |-> kind, payload |-> None, err |-> err]

\* Mutant of attempt_body: stdout is parsed whatever the exit code, which is
\* looked at only when nothing parses.
attempt_body_parses_first(proc) ==
    IF proc.timed_out THEN Raised("timeout", NoError)
    ELSE IF json_loads(proc.stdout) # "JSONDecodeError"
         THEN Ok(json_loads(proc.stdout))
    ELSE IF proc.returncode # 0 THEN Raised("process", ProcessMsg(proc.stderr))
    ELSE IF fence_search(proc.stdout) # None
         THEN IF json_loads(fence_search(proc.stdout)) # "JSONDecodeError"
              THEN Ok(json_loads(fence_search(proc.stdout)))
              ELSE Raised("decode", JSONDecodeMsg)
    ELSE Raised("parse", ParseMsg)

\* The body of the try block after the process was created: lines 101-123.
attempt_body(proc) ==
    IF proc.timed_out THEN Raised("timeout", NoError)
    ELSE IF proc.returncode # 0 THEN Raised("process", ProcessMsg(proc.stderr))
    ELSE IF json_loads(proc.stdout) # "JSONDecodeError"
         THEN Ok(json_loads(proc.stdout))
    ELSE IF fence_search(proc.stdout) # None
         THEN IF json_loads(fence_search(proc.stdout)) # "JSONDecodeError"
              THEN Ok(json_loads(fence_search(proc.stdout)))
              ELSE Raised("decode", JSONDecodeMsg)
    ELSE Raised("parse", ParseMsg)

\* asyncio.create_subprocess_exec could not start the command.
spawn_failure == Raised("notfound", NotFoundMsg)

----------------------------------------------------------------------------
(* AIBackendFactory *)

\* The keys of _backends (lines 176-180), in insertion order.
backends == <<"claude", "codex", "opencode">>

Registered(name) == \E i \in DOMAIN backends : backends[i] = name

\* What subprocess.run([command, "--version"], check=True) does for a
\* backend: it returns, it raises CalledProcessError or FileNotFoundError,
\* or it raises something else (PermissionError, for one).
Probes == {"returns", "CalledProcessError", "FileNotFoundError", "PermissionError"}

\* is_available (lines 30-35): True, False, or the exception that is not
\* caught.
is_available(probe) ==
    CASE probe = "returns" -> "True"
      [] probe \in {"CalledProcessError", "FileNotFoundError"} -> "False"
      [] OTHER -> probe

\* list_available_backends (lines 197-208): a probe that raises is skipped
\* by the bare except.
list_available_backends(probes) ==
    SelectSeq(backends, LAMBDA name : is_available(probes[name]) = "True")

Instance(name) == [ok |-> TRUE, instance |-> name, error |-> None]
Failure(error) == [ok |-> FALSE, instance |-> None, error |-> error]

\* Mutant of get_backend: the availability of the variant is not probed.
get_backend_unprobed(backend_name, default, probes) ==
    LET name == IF backend_name \in {None, ""} THEN default ELSE backend_name IN
    IF ~Registered(name) THEN Failure("ValueError: Unknown backend")
    ELSE Instance(name)

\* get_backend (lines 182-195); default is settings.DEFAULT_AI_BACKEND.
\* `backend_name or default` takes the default for None and for "".
get_backend(backend_name, default, probes) ==
    LET name == IF backend_name \in {None, ""} THEN default ELSE backend_name IN
    IF ~Registered(name) THEN Failure("ValueError: Unknown backend")
    ELSE IF is_available(probes[name]) = "True" THEN Instance(name)
    ELSE IF is_available(probes[name]) = "False"
         THEN Failure("RuntimeError: Backend is not available")
    ELSE Failure(is_available(probes[name]))

IdleRegistry ==
    [probes |-> [i \in {} |-> None], default |-> None, backend_name |-> None,
     listed |-> <<None>>, got |-> Failure(None)]

----------------------------------------------------------------------------
(* ClaudeCodeBackend._build_prompt *)

\* A text is the sequence of its characters; a persona profile (a dict) is
\* the sequence of its <<key, value>> items.

\* Mutant of slice_to: the cut is one character early.
slice_to_one_short(text, n) ==
    SubSeq(text, 1, IF Len(text) < n - 1 THEN Len(text) ELSE n - 1)

\* text[:n] for n >= 0.
slice_to(text, n) == SubSeq(text, 1, IF Len(text) < n THEN Len(text) ELSE n)

\* dict.get(key, default).
dict_get(d, key, default) ==
    IF \E i \in DOMAIN d : d[i][1] = key
    THEN d[CHOOSE i \in DOMAIN d : d[i][1] = key][2]
    ELSE default

\* json.dumps(d, indent=2): the text of all items of d, in their order.
json_dumps(d) == [i \in DOMAIN d |-> <<"\"" \o d[i][1] \o "\": ", d[i][2]>>]

\* _build_prompt lines 39-86: the parts of the f-string that depend on the
\* arguments.
build_prompt(persona_profile, document_text) ==
    [persona |-> json_dumps(persona_profile),
     marketing_content |-> slice_to(document_text, PROMPT_TEXT_LIMIT),
     persona_role |-> dict_get(persona_profile, "role", "Unknown")]

NoPrompt == [persona |-> <<>>, marketing_content |-> <<>>, persona_role |-> None]

IdlePrompt ==
    [persona_profile |-> <<>>, document_text |-> <<>>, built |-> FALSE,
     result |-> NoPrompt]

----------------------------------------------------------------------------
(* ClaudeCodeBackend.run_analysis: the retry loop *)

IdleCall ==
    [m |-> 0, pc |-> "idle", attempt |-> 0, made |-> 0, sleeps |-> <<>>,
     last |-> None, payload |-> None, err |-> NoError]

\* Entry of run_analysis: the first iteration of `for attempt in range(m)`
\* reaches create_subprocess_exec; with m = 0 the loop body never runs and the
\* function raises at line 135.
call_begin(m) ==
    IF m = 0
    THEN [IdleCall EXCEPT !.m = m, !.pc = "raised", !.err = ExhaustedMsg]
    ELSE [IdleCall EXCEPT !.m = m, !.pc = "spawn"]

\* Mutant of on_timeout: the last-attempt test is off by one.
on_timeout_off_by_one(c) ==
    IF c.attempt = c.m
    THEN [c EXCEPT !.pc = "raised", !.err = TimeoutMsg]
    ELSE [c EXCEPT !.pc = "spawn", !.attempt = c.attempt + 1]

\* except asyncio.TimeoutError (lines 125-128): raise on the last attempt,
\* otherwise fall through to the next iteration.
on_timeout(c) ==
    IF c.attempt = c.m - 1
    THEN [c EXCEPT !.pc = "raised", !.err = TimeoutMsg]
    ELSE [c EXCEPT !.pc = "spawn", !.attempt = c.attempt + 1]

\* Mutant of on_exception: the exception is re-raised at once, no retry.
on_exception_no_retry(c, e) == [c EXCEPT !.pc = "raised", !.err = e]

\* Mutant of on_exception: on the last attempt a generic error replaces e.
on_exception_generic(c, e) ==
    IF c.attempt = c.m - 1
    THEN [c EXCEPT !.pc = "raised", !.err = ExhaustedMsg]
    ELSE [c EXCEPT !.pc = "sleep", !.sleeps = Append(c.sleeps, 2 ^ c.attempt)]

\* except Exception (lines 129-133): re-raise on the last attempt, otherwise
\* sleep 2 ** attempt.
on_exception(c, e) ==
    IF c.attempt = c.m - 1
    THEN [c EXCEPT !.pc = "raised", !.err = e]
    ELSE [c EXCEPT !.pc = "sleep", !.sleeps = Append(c.sleeps, 2 ^ c.attempt)]

\* The end of one loop iteration with attempt result r.
attempt_end(c, r) ==
    LET h == [c EXCEPT !.last = r.kind] IN
    CASE r.kind = "ok" -> [h EXCEPT !.pc = "returned", !.payload = r.payload]
      [] r.kind = "timeout" -> on_timeout(h)
      [] OTHER -> on_exception(h, r.err)

\* create_subprocess_exec returns (started) or raises FileNotFoundError.
on_spawn(c, started) ==
    LET s == [c EXCEPT !.made = c.made + 1] IN
    IF started THEN [s EXCEPT !.pc = "wait"] ELSE attempt_end(s, spawn_failure)

\* wait_for(process.communicate()) ends with proc.
on_finish(c, proc) == attempt_end(c, attempt_body(proc))

\* asyncio.sleep returns: the next iteration of the loop.
on_wake(c) == [c EXCEPT !.pc = "spawn", !.attempt = c.attempt + 1]

CallOver(c) == c.pc \in {"returned", "raised"}

CancelledMsg == Msg("CancelledError", "")

\* Mutant of on_cancel: CancelledError is handled by `except Exception`.
on_cancel_caught(c) == on_exception(c, CancelledMsg)

\* The task is cancelled while the call is suspended in an await (of
\* create_subprocess_exec, wait_for or asyncio.sleep): CancelledError is
\* raised there.  It is a BaseException, so neither `except
\* asyncio.TimeoutError` nor `except Exception` (lines 125-133) handles it and
\* it leaves run_analysis.
on_cancel(c) == [c EXCEPT !.pc = "cancelled"]

Suspended(c) == c.pc \in {"spawn", "wait", "sleep"}

----------------------------------------------------------------------------
(* Persisted records *)

PersonaKinds == {"system", "custom", "absent"}

\* Analysis(session_id, persona_id, status="pending"): the other columns
\* take the defaults of models.py; completed_at is nullable, has no default
\* and is assigned nowhere in the source.
NewAnalysis(persona_id) ==
    [persona_id |-> persona_id, status |-> "pending",
     score_json |-> None, top_issues_json |-> None,
     rewritten_suggestions_json |-> None, error_message |-> NoError,
     completed_at |-> None]

\* PersonaService.get_persona(db, persona_id) as the analysis service calls
\* it, without user_email: only a system persona is returned.  The result
\* is the set of rows of query.first(): empty for None.
get_persona(persona_id) ==
    IF persona_id \in DOMAIN personas /\ personas[persona_id] = "system"
    THEN {persona_id}
    ELSE {}

\* Mutant of resolve: an id that get_persona does not find is kept.
resolve_keeps_unresolved(ids, i) == SubSeq(ids, i, Len(ids))

\* The personas list built by lines 46-51 from the ids ids[i..].
RECURSIVE resolve(_, _)
resolve(ids, i) ==
    IF i > Len(ids) THEN <<>>
    ELSE IF get_persona(ids[i]) # {}
         THEN <<ids[i]>> \o resolve(ids, i + 1)
         ELSE resolve(ids, i + 1)

Statuses(rows) == [i \in DOMAIN rows |-> rows[i].status]

Count(seq, v) == Cardinality({i \in DOMAIN seq : seq[i] = v})

----------------------------------------------------------------------------
(* Status aggregation *)

\* Mutant of inline_status: any failure makes the job failed.
inline_status_any_failed(results) ==
    IF Count(results, "failed") > 0 THEN "failed" ELSE "completed"

\* analyze_document lines 77-86, over the statuses of its results list.
inline_status(results) ==
    IF Count(results, "failed") = Len(results) THEN "failed"
    ELSE IF Count(results, "failed") > 0 THEN "partial"
    ELSE "completed"

\* Mutant of update_session_status: the completed branch is missing.
update_session_status_no_upgrade(prev, sts) ==
    IF Len(sts) = 0 THEN prev
    ELSE IF Count(sts, "failed") = Len(sts) THEN "failed"
    ELSE IF Count(sts, "failed") > 0 THEN "partial"
    ELSE prev

\* Mutant of update_session_status: the first row decides.
update_session_status_first_row(prev, sts) ==
    IF Len(sts) = 0 THEN prev
    ELSE IF sts[1] = "failed"
         THEN IF Count(sts, "failed") = Len(sts) THEN "failed" ELSE "partial"
    ELSE IF Count(sts, "completed") = Len(sts) THEN "completed"
    ELSE prev

\* _update_session_status lines 235-248, over the statuses of all analyses
\* rows of the session; prev is the session status it leaves when no branch
\* applies.
update_session_status(prev, sts) ==
    IF Len(sts) = 0 THEN prev
    ELSE IF Count(sts, "failed") = Len(sts) THEN "failed"
    ELSE IF Count(sts, "failed") > 0 THEN "partial"
    ELSE IF Count(sts, "completed") = Len(sts) THEN "completed"
    ELSE prev

----------------------------------------------------------------------------
(* Unit executor *)

\* Mutant of sequential_finish: the failure of result.get on a payload that
\* is no dict is not handled, and the row is left as it was.
sequential_finish_unhandled(u, c) ==
    IF c.pc = "returned" /\ c.payload = "nondict" THEN u
    ELSE IF c.pc = "returned"
    THEN [u EXCEPT !.status = "completed",
                   !.rewritten_suggestions_json = "suggestions"]
    ELSE [u EXCEPT !.status = "failed", !.error_message = c.err]

\* _run_sequential_analyses lines 116-147: the analysis row after
\* run_analysis call c is over.  result.get on a payload that is no dict
\* raises inside the try block and is handled like a backend failure.
sequential_finish(u, c) ==
    IF c.pc = "returned" /\ c.payload # "nondict"
    THEN [u EXCEPT !.status = "completed",
                   !.score_json =
                       IF c.payload = "full" THEN "dimension_scores" ELSE None,
                   !.top_issues_json =
                       IF c.payload = "full" THEN "top_3_issues" ELSE None,
                   !.rewritten_suggestions_json = "suggestions"]
    ELSE [u EXCEPT !.status = "failed",
                   !.error_message =
                       IF c.pc = "returned" THEN AttributeMsg ELSE c.err]

\* retry_failed_analysis lines 194-220: the same for a retried row.
retry_finish(u, c) ==
    IF c.pc = "returned" /\ c.payload # "nondict"
    THEN [u EXCEPT !.status = "completed",
                   !.score_json =
                       IF c.payload = "full" THEN "dimension_scores" ELSE None,
                   !.top_issues_json =
                       IF c.payload = "full" THEN "top_3_issues" ELSE None,
                   !.rewritten_suggestions_json = "suggestions"]
    ELSE [u EXCEPT !.status = "failed",
                   !.error_message =
                       IF c.pc = "returned" THEN AttributeMsg ELSE c.err]

----------------------------------------------------------------------------
(* Tasks *)

IdleRun ==
    [pc |-> "idle", units |-> <<>>, idx |-> 1, results |-> <<>>,
     call |-> IdleCall, exc |-> None]

IdleRetry == [pc |-> "idle", persona_id |-> 0, unit |-> 0, call |-> IdleCall]

NoResponse == [op |-> None, code |-> 0]
Response(op, code) == [op |-> op, code |-> code]

\* No process (the command was not started) and no attempt result yet.
NoProc == [timed_out |-> FALSE, returncode |-> 0, stdout |-> None, stderr |-> ""]
NoResult == Raised(None, NoError)

\* orphans counts the processes of earlier attempts that have not exited.
IdleRa ==
    [call |-> IdleCall, hist |-> <<>>, proc |-> NoProc, result |-> NoResult,
     orphans |-> 0, cancelled |-> FALSE]
\* perm is the order (a permutation of the indices of units) in which the
\* query of a second call returned the same rows; again and permuted are the
\* statuses the second call left.
IdleAgg ==
    [units |-> <<>>, prev |-> "uploaded", inline |-> None, update |-> None,
     perm |-> <<>>, again |-> None, permuted |-> None]

\* analyze_document against a database of its own: the position in the
\* coroutine, the value of its parameter sequential, the session status, the
\* analyses rows of the session, the index of the next unit and the results
\* list.
IdleJob(sequential) ==
    [pc |-> "idle", sequential |-> sequential, status |-> "uploaded",
     analyses |-> <<>>, idx |-> 1, results |-> <<>>]

IdleModes == [behaviour |-> <<>>, job |-> [b \in BOOLEAN |-> IdleJob(b)]]

\* The analyze_document tasks created so far, each with the rows it created,
\* the index of its running unit and its results list, and the one
\* retry_failed_analysis call; overlapped records that the retry call began
\* while a task was running.
IdleTask == [pc |-> "idle", units |-> <<>>, idx |-> 1, results |-> <<>>]

IdleTasks ==
    [run |-> [t \in 1..MaxTasks |-> IdleTask],
     retry |-> [pc |-> "idle", unit |-> 0],
     overlapped |-> FALSE]

\* The users that send requests; root is the one whose User row has
\* is_admin set.
Users == {"ann", "bob", "root"}

IsAdmin(user) == user = "root"

NoRequest == [op |-> None, user |-> None, form |-> ""]

\* A session created by ann and shared with nobody, no request received.
IdleAccess ==
    [exists |-> TRUE, user_email |-> "ann", share_with_emails |-> {},
     request |-> NoRequest]

RunInProgress == run.pc \notin {"idle", "done", "raised", "cancelled"}
RetryInProgress == retry.pc # "idle"

\* The first analyses row of the session for persona_id (.first()), or 0.
first_analysis(persona_id) ==
    IF \E i \in DOMAIN analyses : analyses[i].persona_id = persona_id
    THEN CHOOSE i \in DOMAIN analyses :
            /\ analyses[i].persona_id = persona_id
            /\ \A j \in DOMAIN analyses :
                   analyses[j].persona_id = persona_id => i <= j
    ELSE 0

----------------------------------------------------------------------------
(* Initial states *)

Selections == {[i \in 1..n |-> i] : n \in 0..MaxPersonas}

InitIdle ==
    /\ run = IdleRun
    /\ retry = IdleRetry
    /\ http = NoResponse
    /\ runs = 0
    /\ analyses = <<>>
    /\ status = "uploaded"

\* A session as create_session leaves it: status "uploaded", no analyses.
Init ==
    /\ selected \in Selections
    /\ personas \in [DOMAIN selected -> PersonaKinds]
    /\ InitIdle
    /\ ra = IdleRa
    /\ agg = IdleAgg
    /\ prompt = IdlePrompt
    /\ registry = IdleRegistry
    /\ modes = IdleModes
    /\ tasks = IdleTasks
    /\ access = IdleAccess

----------------------------------------------------------------------------
(* start_analysis (api/sessions.py) and analyze_document *)

\* POST /{session_id}/analyze by the owner.  available is the answer of
\* backend.is_available() inside AIBackendFactory.get_backend.
start_analysis(available) ==
    /\ IF status \in {"analyzing", "completed"}
       THEN /\ http' = Response("start", 400)
            /\ UNCHANGED <<run, runs>>
       ELSE IF ~available
       THEN /\ http' = Response("start", 500)
            /\ UNCHANGED <<run, runs>>
       ELSE /\ runs < MaxRuns
            /\ Len(analyses) + Len(selected) <= MaxRows
            /\ run' = [IdleRun EXCEPT !.pc = "scheduled"]
            /\ runs' = runs + 1
            /\ http' = Response("start", 200)
    /\ UNCHANGED <<personas, selected, status, analyses, retry, ra, agg, prompt, registry, modes, tasks, access>>

\* Mutant of RunSetAnalyzing: the job status is not touched before the units
\* are created and run.
RunSetAnalyzing_skipped ==
    /\ run.pc = "scheduled"
    /\ run' = [run EXCEPT !.pc = "analyzing"]
    /\ UNCHANGED <<personas, selected, status, analyses, retry, http, runs, ra, agg, prompt, registry, modes, tasks, access>>

\* analyze_document lines 42-44.
RunSetAnalyzing ==
    /\ run.pc = "scheduled"
    /\ status' = "analyzing"
    /\ run' = [run EXCEPT !.pc = "analyzing"]
    /\ UNCHANGED <<personas, selected, analyses, retry, http, runs, ra, agg, prompt, registry, modes, tasks, access>>

\* Mutant of RunCreateAnalyses: with no valid persona the exception is raised
\* without the job being marked failed.
RunCreateAnalyses_leaves_analyzing ==
    /\ run.pc = "analyzing"
    /\ LET ps == resolve(selected, 1) IN
       IF ps = <<>>
       THEN /\ run' = [run EXCEPT !.pc = "raised",
                                  !.exc = "No valid personas selected"]
            /\ UNCHANGED <<analyses, status>>
       ELSE /\ analyses' = analyses \o [i \in DOMAIN ps |-> NewAnalysis(ps[i])]
            /\ run' = [run EXCEPT
                          !.pc = "created",
                          !.units = [i \in DOMAIN ps |-> Len(analyses) + i]]
            /\ UNCHANGED status
    /\ UNCHANGED <<personas, selected, retry, http, runs, ra, agg, prompt, registry, modes, tasks, access>>

\* analyze_document lines 46-69.
RunCreateAnalyses ==
    /\ run.pc = "analyzing"
    /\ LET ps == resolve(selected, 1) IN
       IF ps = <<>>
       THEN /\ status' = "failed"
            /\ run' = [run EXCEPT !.pc = "raised",
                                  !.exc = "No valid personas selected"]
            /\ UNCHANGED analyses
       ELSE /\ analyses' = analyses \o [i \in DOMAIN ps |-> NewAnalysis(ps[i])]
            /\ run' = [run EXCEPT
                          !.pc = "created",
                          !.units = [i \in DOMAIN ps |-> Len(analyses) + i]]
            /\ UNCHANGED status
    /\ UNCHANGED <<personas, selected, retry, http, runs, ra, agg, prompt, registry, modes, tasks, access>>

\* Mutant of RunUnitBegin: all the units left are made running at once.
RunUnitBegin_all_at_once ==
    /\ run.pc \in {"created", "unit_done"}
    /\ run.idx <= Len(run.units)
    /\ analyses' =
           [i \in DOMAIN analyses |->
               IF \E j \in run.idx..Len(run.units) : run.units[j] = i
               THEN [analyses[i] EXCEPT !.status = "running"]
               ELSE analyses[i]]
    /\ run' = [run EXCEPT !.pc = "call", !.call = call_begin(AI_RETRY_ATTEMPTS)]
    /\ UNCHANGED <<personas, selected, status, retry, http, runs, ra, agg, prompt, registry, modes, tasks, access>>

\* Mutant of RunUnitBegin: run_analysis is entered without the unit being
\* made running first.
RunUnitBegin_skips_running ==
    /\ run.pc \in {"created", "unit_done"}
    /\ run.idx <= Len(run.units)
    /\ run' = [run EXCEPT !.pc = "call", !.call = call_begin(AI_RETRY_ATTEMPTS)]
    /\ UNCHANGED <<personas, selected, status, analyses, retry, http, runs, ra, agg, prompt, registry, modes, tasks, access>>

\* _run_sequential_analyses lines 106-114: the next unit becomes running and
\* run_analysis is entered.
RunUnitBegin ==
    /\ run.pc \in {"created", "unit_done"}
    /\ run.idx <= Len(run.units)
    /\ analyses' = [analyses EXCEPT ![run.units[run.idx]].status = "running"]
    /\ run' = [run EXCEPT !.pc = "call", !.call = call_begin(AI_RETRY_ATTEMPTS)]
    /\ UNCHANGED <<personas, selected, status, retry, http, runs, ra, agg, prompt, registry, modes, tasks, access>>

RunSpawn(started) ==
    /\ run.pc = "call" /\ run.call.pc = "spawn"
    /\ run' = [run EXCEPT !.call = on_spawn(run.call, started)]
    /\ UNCHANGED <<personas, selected, status, analyses, retry, http, runs, ra, agg, prompt, registry, modes, tasks, access>>

RunFinish(proc) ==
    /\ run.pc = "call" /\ run.call.pc = "wait"
    /\ run' = [run EXCEPT !.call = on_finish(run.call, proc)]
    /\ UNCHANGED <<personas, selected, status, analyses, retry, http, runs, ra, agg, prompt, registry, modes, tasks, access>>

RunWake ==
    /\ run.pc = "call" /\ run.call.pc = "sleep"
    /\ run' = [run EXCEPT !.call = on_wake(run.call)]
    /\ UNCHANGED <<personas, selected, status, analyses, retry, http, runs, ra, agg, prompt, registry, modes, tasks, access>>

\* Mutant of RunUnitEnd: a failed unit aborts the job run.
RunUnitEnd_abort ==
    /\ run.pc = "call" /\ CallOver(run.call)
    /\ LET i == run.units[run.idx]
           u == sequential_finish(analyses[i], run.call) IN
       /\ analyses' = [analyses EXCEPT ![i] = u]
       /\ run' = IF u.status = "failed"
                 THEN [run EXCEPT !.pc = "raised", !.exc = "unit failed"]
                 ELSE [run EXCEPT !.pc = "unit_done",
                                  !.idx = run.idx + 1,
                                  !.results = Append(run.results, u.status)]
    /\ UNCHANGED <<personas, selected, status, retry, http, runs, ra, agg, prompt, registry, modes, tasks, access>>

\* _run_sequential_analyses lines 116-147: the unit's outcome is committed
\* and appended to results.
RunUnitEnd ==
    /\ run.pc = "call" /\ CallOver(run.call)
    /\ LET i == run.units[run.idx]
           u == sequential_finish(analyses[i], run.call) IN
       /\ analyses' = [analyses EXCEPT ![i] = u]
       /\ run' = [run EXCEPT !.pc = "unit_done",
                             !.idx = run.idx + 1,
                             !.results = Append(run.results, u.status)]
    /\ UNCHANGED <<personas, selected, status, retry, http, runs, ra, agg, prompt, registry, modes, tasks, access>>

\* Mutant of RunAggregate: the run returns without committing a job status.
RunAggregate_no_commit ==
    /\ run.pc = "unit_done"
    /\ run.idx > Len(run.units)
    /\ run' = [run EXCEPT !.pc = "done", !.results = <<>>, !.call = IdleCall]
    /\ UNCHANGED <<personas, selected, status, analyses, retry, http, runs, ra, agg, prompt, registry, modes, tasks, access>>

\* analyze_document lines 77-96.
RunAggregate ==
    /\ run.pc = "unit_done"
    /\ run.idx > Len(run.units)
    /\ status' = inline_status(run.results)
    /\ run' = [run EXCEPT !.pc = "done", !.results = <<>>, !.call = IdleCall]
    /\ UNCHANGED <<personas, selected, analyses, retry, http, runs, ra, agg, prompt, registry, modes, tasks, access>>

----------------------------------------------------------------------------
(* retry_analysis (api/sessions.py) and retry_failed_analysis *)

\* Mutant of retry_analysis: the status of the unit is not looked at.
retry_analysis_any_status(persona_id, available) ==
    /\ retry.pc = "idle"
    /\ LET i == first_analysis(persona_id) IN
       IF i = 0
       THEN /\ http' = Response("retry", 404)
            /\ UNCHANGED <<analyses, retry>>
       ELSE IF ~available \/ get_persona(persona_id) = {}
       THEN /\ http' = Response("retry", 500)
            /\ UNCHANGED <<analyses, retry>>
       ELSE /\ analyses' = [analyses EXCEPT ![i].status = "running",
                                            ![i].error_message = NoError]
            /\ retry' = [pc |-> "call", persona_id |-> persona_id, unit |-> i,
                         call |-> call_begin(AI_RETRY_ATTEMPTS)]
            /\ UNCHANGED http
    /\ UNCHANGED <<personas, selected, status, run, runs, ra, agg, prompt, registry, modes, tasks, access>>

\* Mutant of retry_analysis: the old error message is not cleared.
retry_analysis_keeps_error(persona_id, available) ==
    /\ retry.pc = "idle"
    /\ LET i == first_analysis(persona_id) IN
       /\ i # 0
       /\ analyses[i].status = "failed"
       /\ available /\ get_persona(persona_id) # {}
       /\ analyses' = [analyses EXCEPT ![i].status = "running"]
       /\ retry' = [pc |-> "call", persona_id |-> persona_id, unit |-> i,
                    call |-> call_begin(AI_RETRY_ATTEMPTS)]
    /\ UNCHANGED <<personas, selected, status, run, runs, ra, agg, http, prompt, registry, modes, tasks, access>>

\* POST /{session_id}/retry/{persona_id} by the owner, up to the first await
\* of run_analysis: the handler's checks (lines 219-228), initialize_backend,
\* then retry_failed_analysis lines 169-192.
retry_analysis(persona_id, available) ==
    /\ retry.pc = "idle"
    /\ LET i == first_analysis(persona_id) IN
       IF i = 0
       THEN /\ http' = Response("retry", 404)
            /\ UNCHANGED <<analyses, retry>>
       ELSE IF analyses[i].status # "failed"
       THEN /\ http' = Response("retry", 400)
            /\ UNCHANGED <<analyses, retry>>
       ELSE IF ~available \/ get_persona(persona_id) = {}
       THEN /\ http' = Response("retry", 500)
            /\ UNCHANGED <<analyses, retry>>
       ELSE /\ analyses' = [analyses EXCEPT ![i].status = "running",
                                            ![i].error_message = NoError]
            /\ retry' = [pc |-> "call", persona_id |-> persona_id, unit |-> i,
                         call |-> call_begin(AI_RETRY_ATTEMPTS)]
            /\ UNCHANGED http
    /\ UNCHANGED <<personas, selected, status, run, runs, ra, agg, prompt, registry, modes, tasks, access>>

RetrySpawn(started) ==
    /\ retry.pc = "call" /\ retry.call.pc = "spawn"
    /\ retry' = [retry EXCEPT !.call = on_spawn(retry.call, started)]
    /\ UNCHANGED <<personas, selected, status, analyses, run, http, runs, ra, agg, prompt, registry, modes, tasks, access>>

RetryFinish(proc) ==
    /\ retry.pc = "call" /\ retry.call.pc = "wait"
    /\ retry' = [retry EXCEPT !.call = on_finish(retry.call, proc)]
    /\ UNCHANGED <<personas, selected, status, analyses, run, http, runs, ra, agg, prompt, registry, modes, tasks, access>>

RetryWake ==
    /\ retry.pc = "call" /\ retry.call.pc = "sleep"
    /\ retry' = [retry EXCEPT !.call = on_wake(retry.call)]
    /\ UNCHANGED <<personas, selected, status, analyses, run, http, runs, ra, agg, prompt, registry, modes, tasks, access>>

\* retry_failed_analysis lines 194-203 (success) and 215-227 (failure): the
\* outcome is committed; only the success path goes on to
\* _update_session_status, the failure path returns.
RetryUnitEnd ==
    /\ retry.pc = "call" /\ CallOver(retry.call)
    /\ LET u == retry_finish(analyses[retry.unit], retry.call) IN
       /\ analyses' = [analyses EXCEPT ![retry.unit] = u]
       /\ IF u.status = "completed"
          THEN /\ retry' = [retry EXCEPT !.pc = "update", !.call = IdleCall]
               /\ UNCHANGED http
          ELSE /\ retry' = IdleRetry
               /\ http' = Response("retry", 200)
    /\ UNCHANGED <<personas, selected, status, run, runs, ra, agg, prompt, registry, modes, tasks, access>>

\* retry_failed_analysis line 206: _update_session_status, then return.
RetryUpdateStatus ==
    /\ retry.pc = "update"
    /\ status' = update_session_status(status, Statuses(analyses))
    /\ retry' = IdleRetry
    /\ http' = Response("retry", 200)
    /\ UNCHANGED <<personas, selected, analyses, run, runs, ra, agg, prompt, registry, modes, tasks, access>>

----------------------------------------------------------------------------
(* The service used one call at a time *)

\* A start request is served while no analyze_document task is pending or
\* running, or is refused by the handler's own status check; a retry request
\* is served between job runs, or is refused by the handler's own checks.
StartRequest ==
    /\ ~RetryInProgress
    /\ ~RunInProgress \/ status \in {"analyzing", "completed"}
    /\ \E available \in BOOLEAN : start_analysis(available)

\* retry_analysis lines 219-228 answer 404 or 400.
RetryRefused(persona_id) ==
    IF first_analysis(persona_id) = 0 THEN TRUE
    ELSE analyses[first_analysis(persona_id)].status # "failed"

RetryRequest ==
    \E persona_id \in 1..MaxPersonas, available \in BOOLEAN :
        /\ ~RunInProgress \/ RetryRefused(persona_id)
        /\ retry_analysis(persona_id, available)

Next ==
    \/ StartRequest
    \/ RunSetAnalyzing
    \/ RunCreateAnalyses
    \/ RunUnitBegin
    \/ \E started \in BOOLEAN : RunSpawn(started)
    \/ \E proc \in ProcOutcomes : RunFinish(proc)
    \/ RunWake
    \/ RunUnitEnd
    \/ RunAggregate
    \/ RetryRequest
    \/ \E started \in BOOLEAN : RetrySpawn(started)
    \/ \E proc \in ProcOutcomes : RetryFinish(proc)
    \/ RetryWake
    \/ RetryUnitEnd
    \/ RetryUpdateStatus

Spec == Init /\ [][Next]_vars

\* The steps of the analyze_document task.  The event loop runs a task that
\* asyncio.create_task has scheduled, and resumes it when what it awaits is
\* over: create_subprocess_exec returns or raises, wait_for ends with the
\* process or with the timeout, asyncio.sleep returns.
RunStep ==
    \/ RunSetAnalyzing
    \/ RunCreateAnalyses
    \/ RunUnitBegin
    \/ \E started \in BOOLEAN : RunSpawn(started)
    \/ \E proc \in ProcOutcomes : RunFinish(proc)
    \/ RunWake
    \/ RunUnitEnd
    \/ RunAggregate

\* Spec with the task never left waiting for ever and never cancelled.
SpecLive == Init /\ [][Next]_vars /\ WF_vars(RunStep)

----------------------------------------------------------------------------
(* A job run in a task that may be cancelled *)

\* The task that start_analysis created (line 187) is cancelled, before it
\* has run or while it is suspended inside run_analysis, the only place
\* where analyze_document awaits.  The CancelledError that leaves
\* run_analysis is a BaseException: `except Exception` of
\* _run_sequential_analyses (line 134) does not handle it, so nothing is
\* committed and it leaves analyze_document.
RunCancel ==
    /\ \/ run.pc = "scheduled"
       \/ run.pc = "call" /\ Suspended(run.call)
    /\ run' = [run EXCEPT !.pc = "cancelled",
                          !.call = IF run.pc = "call" THEN on_cancel(run.call)
                                   ELSE run.call,
                          !.exc = "CancelledError"]
    /\ UNCHANGED <<personas, selected, status, analyses, retry, http, runs, ra, agg, prompt, registry, modes, tasks, access>>

NextCancel == StartRequest \/ RunStep \/ RunCancel

SpecCancel == Init /\ [][NextCancel]_vars

----------------------------------------------------------------------------
(* Request handlers and tasks interleaved on the event loop *)

\* A coroutine runs without interruption from one suspension to the next.
\* The only awaits that suspend are those inside run_analysis
\* (create_subprocess_exec, wait_for, sleep): initialize_backend and
\* _update_session_status have no await in their bodies, and every change
\* of a row is committed before run_analysis is entered.  An action below is
\* one such uninterrupted stretch; run_analysis is entered at the end of one
\* and its result (CallResults) opens the next.

\* What run_analysis ends with for one unit: a result with the requested
\* keys, a result that is no dict, or an exception after the last attempt.
CallResults ==
    {[IdleCall EXCEPT !.pc = "returned", !.payload = "full"],
     [IdleCall EXCEPT !.pc = "returned", !.payload = "nondict"],
     [IdleCall EXCEPT !.pc = "raised", !.err = TimeoutMsg]}

TaskInProgress(t) == tasks.run[t].pc \in {"scheduled", "call"}

NextTask == CHOOSE t \in 1..MaxTasks :
                /\ tasks.run[t].pc = "idle"
                /\ \A o \in 1..MaxTasks : tasks.run[o].pc = "idle" => t <= o

\* start_analysis (api/sessions.py lines 168-200) by the owner: from the
\* status check to create_task and the answer.
TaskStart(available) ==
    /\ IF status \in {"analyzing", "completed"}
       THEN /\ http' = Response("start", 400)
            /\ UNCHANGED tasks
       ELSE IF ~available
       THEN /\ http' = Response("start", 500)
            /\ UNCHANGED tasks
       ELSE /\ \E t \in 1..MaxTasks : tasks.run[t].pc = "idle"
            /\ tasks' = [tasks EXCEPT !.run[NextTask].pc = "scheduled"]
            /\ http' = Response("start", 200)
    /\ UNCHANGED <<personas, selected, status, analyses, run, retry, runs, ra, agg, prompt, registry, modes, access>>

\* The task created by start_analysis runs analyze_document from its first
\* line to the first run_analysis (analysis_service.py lines 37-69 and
\* 106-114): the job becomes analyzing, the rows are created and the first
\* unit becomes running; with no valid persona the job is marked failed and
\* the task ends with ValueError.
TaskBegin(t) ==
    /\ tasks.run[t].pc = "scheduled"
    /\ LET ps == resolve(selected, 1) IN
       IF ps = <<>>
       THEN /\ status' = "failed"
            /\ tasks' = [tasks EXCEPT !.run[t].pc = "raised"]
            /\ UNCHANGED analyses
       ELSE /\ status' = "analyzing"
            /\ analyses' = analyses \o
                   [i \in DOMAIN ps |->
                       IF i = 1
                       THEN [NewAnalysis(ps[i]) EXCEPT !.status = "running"]
                       ELSE NewAnalysis(ps[i])]
            /\ tasks' = [tasks EXCEPT
                            !.run[t] =
                                [IdleTask EXCEPT
                                    !.pc = "call",
                                    !.units = [i \in DOMAIN ps |->
                                                  Len(analyses) + i]]]
    /\ UNCHANGED <<personas, selected, run, retry, http, runs, ra, agg, prompt, registry, modes, access>>

\* run_analysis of the running unit of task t is over with c (lines
\* 116-147): the outcome is committed and appended to results; then the next
\* unit becomes running (lines 106-114), or, after the last unit, the job
\* status computed from results is committed (lines 77-88) and the task ends.
TaskUnitEnd(t, c) ==
    /\ tasks.run[t].pc = "call"
    /\ LET r == tasks.run[t]
           i == r.units[r.idx]
           u == sequential_finish(analyses[i], c)
           results == Append(r.results, u.status) IN
       IF r.idx < Len(r.units)
       THEN /\ analyses' = [analyses EXCEPT
                               ![i] = u,
                               ![r.units[r.idx + 1]].status = "running"]
            /\ tasks' = [tasks EXCEPT !.run[t].idx = r.idx + 1,
                                      !.run[t].results = results]
            /\ UNCHANGED status
       ELSE /\ analyses' = [analyses EXCEPT ![i] = u]
            /\ status' = inline_status(results)
            /\ tasks' = [tasks EXCEPT !.run[t].pc = "done",
                                      !.run[t].idx = r.idx + 1,
                                      !.run[t].results = results]
    /\ UNCHANGED <<personas, selected, run, retry, http, runs, ra, agg, prompt, registry, modes, access>>

\* retry_analysis (api/sessions.py lines 210-246) by the owner, up to the
\* run_analysis inside retry_failed_analysis (analysis_service.py lines
\* 169-192).
TaskRetry(persona_id, available) ==
    /\ tasks.retry.pc = "idle"
    /\ LET i == first_analysis(persona_id) IN
       IF i = 0
       THEN /\ http' = Response("retry", 404)
            /\ UNCHANGED <<analyses, tasks>>
       ELSE IF analyses[i].status # "failed"
       THEN /\ http' = Response("retry", 400)
            /\ UNCHANGED <<analyses, tasks>>
       ELSE IF ~available \/ get_persona(persona_id) = {}
       THEN /\ http' = Response("retry", 500)
            /\ UNCHANGED <<analyses, tasks>>
       ELSE /\ analyses' = [analyses EXCEPT ![i].status = "running",
                                            ![i].error_message = NoError]
            /\ tasks' = [tasks EXCEPT
                            !.retry = [pc |-> "call", unit |-> i],
                            !.overlapped =
                                \E t \in 1..MaxTasks : tasks.run[t].pc = "call"]
            /\ UNCHANGED http
    /\ UNCHANGED <<personas, selected, status, run, retry, runs, ra, agg, prompt, registry, modes, access>>

\* run_analysis of the retried unit is over with c (lines 194-227): the
\* outcome is committed, on success _update_session_status recomputes the
\* job status from all rows of the session, and the handler answers.
TaskRetryEnd(c) ==
    /\ tasks.retry.pc = "call"
    /\ LET u == retry_finish(analyses[tasks.retry.unit], c) IN
       /\ analyses' = [analyses EXCEPT ![tasks.retry.unit] = u]
       /\ status' = IF u.status = "completed"
                    THEN update_session_status(status, Statuses(analyses'))
                    ELSE status
    /\ tasks' = [tasks EXCEPT !.retry = IdleTasks.retry]
    /\ http' = Response("retry", 200)
    /\ UNCHANGED <<personas, selected, run, retry, runs, ra, agg, prompt, registry, modes, access>>

StartAnyTime == \E available \in BOOLEAN : TaskStart(available)

RetryAnyTime ==
    \E persona_id \in 1..MaxPersonas, available \in BOOLEAN :
        TaskRetry(persona_id, available)

TaskStep ==
    \E t \in 1..MaxTasks :
        \/ TaskBegin(t)
        \/ \E c \in CallResults : TaskUnitEnd(t, c)

RetryStep == \E c \in CallResults : TaskRetryEnd(c)

NextOverlap == StartAnyTime \/ RetryAnyTime \/ TaskStep \/ RetryStep

SpecOverlap == Init /\ [][NextOverlap]_vars

\* Retry requests at any time, start requests while no task is pending or
\* running, or refused by the handler's own status check.
StartBetweenRuns ==
    /\ (\A t \in 1..MaxTasks : ~TaskInProgress(t))
           \/ status \in {"analyzing", "completed"}
    /\ StartAnyTime

NextRetryOverlap == StartBetweenRuns \/ RetryAnyTime \/ TaskStep \/ RetryStep

SpecRetryOverlap == Init /\ [][NextRetryOverlap]_vars

\* The same handlers and tasks with the requests sent one at a time: a
\* request is sent when no task and no retry call is under way.
Quiet ==
    /\ tasks.retry.pc = "idle"
    /\ \A t \in 1..MaxTasks : ~TaskInProgress(t)

StartWhenQuiet == Quiet /\ StartAnyTime

RetryWhenQuiet == Quiet /\ RetryAnyTime

NextSerial == StartWhenQuiet \/ RetryWhenQuiet \/ TaskStep \/ RetryStep

SpecSerial == Init /\ [][NextSerial]_vars

----------------------------------------------------------------------------
(* The session handlers with the user that sends the request *)

\* The values of the form field selected_persona_ids that are sent.
Forms == {"not json", "[]", "[1]"}

\* json.loads(selected_persona_ids) of create_session line 30 raises
\* JSONDecodeError, or returns the list.
raises_JSONDecodeError(form) == form = "not json"

json_loads_ids(form) ==
    IF form = "[1]" THEN <<1>> ELSE <<>>

\* Mutant of owns: an admin passes the ownership check too.
owns_or_admin(user) == access.user_email = user \/ IsAdmin(user)

\* The ownership check of start_analysis, retry_analysis, share_session and
\* delete_session: session.user_email != current_user.email answers 403.
owns(user) == access.user_email = user

\* check_session_access (core/security.py lines 50-59).
check_session_access(user) ==
    \/ access.user_email = user
    \/ user \in access.share_with_emails
    \/ IsAdmin(user)

Pending == access.request # NoRequest /\ http = NoResponse

\* A request arrives and get_current_user has resolved its user.  A request
\* is received when the one before it was answered and no task is under
\* way; create_session makes a session of its own, which is the session of
\* the model when there is none.
Receive ==
    /\ ~Pending
    /\ Quiet
    /\ \E op \in {"create", "get", "start", "retry", "share", "delete"},
          user \in Users, form \in Forms :
           /\ op = "create" => ~access.exists
           /\ access' = [access EXCEPT
                             !.request =
                                 [op |-> op, user |-> user,
                                  form |-> IF op = "create" THEN form ELSE ""]]
    /\ http' = NoResponse
    /\ UNCHANGED <<personas, selected, status, analyses, run, retry, runs, ra, agg, prompt, registry, modes, tasks>>

\* create_session (api/sessions.py lines 20-92).  The HTTPException(400) of
\* lines 32 and 59 is raised inside the try block, and `except Exception`
\* (lines 90-92) answers 500 in its place; only JSONDecodeError is answered
\* with 400.  processed: DocumentProcessor.process_file returned.  The
\* session row is taken to be stored as lines 62-74 intend.
create_session(processed) ==
    /\ Pending /\ access.request.op = "create"
    /\ LET persona_ids == json_loads_ids(access.request.form) IN
       IF raises_JSONDecodeError(access.request.form)
       THEN /\ http' = Response("create", 400)
            /\ UNCHANGED <<access, selected, status, analyses>>
       ELSE IF persona_ids = <<>> \/ ~processed
       THEN /\ http' = Response("create", 500)
            /\ UNCHANGED <<access, selected, status, analyses>>
       ELSE /\ access' = [access EXCEPT
                             !.exists = TRUE,
                             !.user_email = access.request.user,
                             !.share_with_emails = {}]
            /\ selected' = persona_ids
            /\ status' = "uploaded"
            /\ analyses' = <<>>
            /\ http' = Response("create", 200)
    /\ UNCHANGED <<personas, run, retry, runs, ra, agg, prompt, registry, modes, tasks>>

\* get_session (lines 121-159).
get_session ==
    /\ Pending /\ access.request.op = "get"
    /\ http' = IF ~access.exists THEN Response("get", 404)
               ELSE IF ~check_session_access(access.request.user)
               THEN Response("get", 403)
               ELSE Response("get", 200)
    /\ UNCHANGED <<personas, selected, status, analyses, run, retry, runs, ra, agg, prompt, registry, modes, tasks, access>>

\* start_analysis (lines 161-200) with its lookup and ownership check.
start_analysis_as(available) ==
    /\ Pending /\ access.request.op = "start"
    /\ IF ~access.exists \/ ~owns(access.request.user)
       THEN /\ http' = Response("start", IF ~access.exists THEN 404 ELSE 403)
            /\ UNCHANGED <<personas, selected, status, analyses, run, retry, runs, ra, agg, prompt, registry, modes, tasks, access>>
       ELSE TaskStart(available)

\* retry_analysis (lines 202-246) with its lookup and ownership check.  The
\* answer of an accepted retry is given when retry_failed_analysis returns.
retry_analysis_as(persona_id, available) ==
    /\ Pending /\ access.request.op = "retry"
    /\ IF ~access.exists \/ ~owns(access.request.user)
       THEN /\ http' = Response("retry", IF ~access.exists THEN 404 ELSE 403)
            /\ UNCHANGED <<personas, selected, status, analyses, run, retry, runs, ra, agg, prompt, registry, modes, tasks, access>>
       ELSE TaskRetry(persona_id, available)

\* share_session (lines 248-274).  A stored list that is not empty is
\* appended to in place and assigned back as the same object; whether the
\* commit then writes the JSON column depends on the change detection of
\* the ORM, so both outcomes are taken.  An empty stored list is replaced by
\* a new list (`or []`), which is written.
share_session(emails) ==
    /\ Pending /\ access.request.op = "share"
    /\ IF ~access.exists \/ ~owns(access.request.user)
       THEN /\ http' = Response("share", IF ~access.exists THEN 404 ELSE 403)
            /\ UNCHANGED access
       ELSE /\ \E written \in BOOLEAN :
                 /\ access.share_with_emails = {} => written
                 /\ access' = [access EXCEPT
                                  !.share_with_emails =
                                      IF written THEN @ \cup emails ELSE @]
            /\ http' = Response("share", 200)
    /\ UNCHANGED <<personas, selected, status, analyses, run, retry, runs, ra, agg, prompt, registry, modes, tasks>>

\* delete_session (lines 276-295): db.delete(session) deletes the analyses
\* rows of the session with it (models.py line 46).  The owner's request is
\* served when no task and no retry call of the session is under way.
delete_session ==
    /\ Pending /\ access.request.op = "delete"
    /\ IF ~access.exists \/ ~owns(access.request.user)
       THEN /\ http' = Response("delete", IF ~access.exists THEN 404 ELSE 403)
            /\ UNCHANGED <<access, analyses>>
       ELSE /\ Quiet
            /\ access' = [access EXCEPT !.exists = FALSE]
            /\ analyses' = <<>>
            /\ http' = Response("delete", 200)
    /\ UNCHANGED <<personas, selected, status, run, retry, runs, ra, agg, prompt, registry, modes, tasks>>

Serve ==
    \/ \E processed \in BOOLEAN : create_session(processed)
    \/ get_session
    \/ \E available \in BOOLEAN : start_analysis_as(available)
    \/ \E persona_id \in 1..MaxPersonas, available \in BOOLEAN :
           retry_analysis_as(persona_id, available)
    \/ \E email \in Users : share_session({email})
    \/ delete_session

\* No session yet; every persona id is a system persona.
InitAccess ==
    /\ selected = <<>>
    /\ personas = [i \in 1..MaxPersonas |-> "system"]
    /\ InitIdle
    /\ ra = IdleRa
    /\ agg = IdleAgg
    /\ prompt = IdlePrompt
    /\ registry = IdleRegistry
    /\ modes = IdleModes
    /\ tasks = IdleTasks
    /\ access = [IdleAccess EXCEPT !.exists = FALSE]

NextAccess == Receive \/ Serve \/ TaskStep \/ RetryStep

SpecAccess == InitAccess /\ [][NextAccess]_vars

----------------------------------------------------------------------------
(* analyze_document with sequential = True and with sequential = False *)

\* One step of _run_sequential_analyses (lines 98-149) in job j: the next
\* unit becomes running, or the running unit gets the outcome that
\* behaviour holds for its persona and is appended to results.
run_sequential_analyses(j, behaviour) ==
    IF j.pc = "next_unit"
    THEN [j EXCEPT !.pc = "call", !.analyses[j.idx].status = "running"]
    ELSE LET u == sequential_finish(j.analyses[j.idx],
                                    behaviour[j.analyses[j.idx].persona_id])
         IN [j EXCEPT !.pc = "next_unit",
                      !.analyses[j.idx] = u,
                      !.idx = j.idx + 1,
                      !.results = Append(j.results, u.status)]

\* Mutant of run_parallel_analyses: the first failed unit ends the loop and
\* the units after it are left as they are.
run_parallel_analyses_stops_at_failure(j, behaviour) ==
    LET n == run_sequential_analyses(j, behaviour) IN
    IF n.pc = "next_unit" /\ n.analyses[j.idx].status = "failed"
    THEN [n EXCEPT !.idx = Len(j.analyses) + 1]
    ELSE n

\* _run_parallel_analyses (lines 151-159) returns what
\* _run_sequential_analyses returns.
run_parallel_analyses(j, behaviour) == run_sequential_analyses(j, behaviour)

\* One step of analyze_document(session_id, persona_ids, document_text,
\* sequential) in job j (lines 42-96).
analyze_document(j, behaviour) ==
    CASE j.pc = "scheduled" ->
            [j EXCEPT !.pc = "analyzing", !.status = "analyzing"]
      [] j.pc = "analyzing" ->
            LET ps == resolve(selected, 1) IN
            IF ps = <<>>
            THEN [j EXCEPT !.pc = "raised", !.status = "failed"]
            ELSE [j EXCEPT !.pc = "next_unit",
                           !.analyses = [i \in DOMAIN ps |-> NewAnalysis(ps[i])]]
      [] j.pc \in {"next_unit", "call"} /\ j.idx <= Len(j.analyses) ->
            IF j.sequential
            THEN run_sequential_analyses(j, behaviour)
            ELSE run_parallel_analyses(j, behaviour)
      [] OTHER ->
            [j EXCEPT !.pc = "done", !.status = inline_status(j.results)]

JobOver(j) == j.pc \in {"idle", "done", "raised"}

\* The same session, personas and backend behaviour for both jobs.
InitModes ==
    /\ selected \in Selections
    /\ personas \in [DOMAIN selected -> PersonaKinds]
    /\ InitIdle
    /\ ra = IdleRa
    /\ agg = IdleAgg
    /\ prompt = IdlePrompt
    /\ registry = IdleRegistry
    /\ tasks = IdleTasks
    /\ access = IdleAccess
    /\ \E behaviour \in [DOMAIN selected -> CallResults] :
           modes = [behaviour |-> behaviour,
                    job |-> [b \in BOOLEAN |->
                                [IdleJob(b) EXCEPT !.pc = "scheduled"]]]

AnalyzeDocument(sequential) ==
    /\ ~JobOver(modes.job[sequential])
    /\ modes' = [modes EXCEPT
                    !.job[sequential] =
                        analyze_document(modes.job[sequential], modes.behaviour)]
    /\ UNCHANGED <<personas, selected, status, analyses, run, retry, http, runs, ra, agg, prompt, registry, tasks, access>>

NextModes == \E sequential \in BOOLEAN : AnalyzeDocument(sequential)

SpecModes == InitModes /\ [][NextModes]_vars

----------------------------------------------------------------------------
(* Personas deleted and promoted between job runs *)

\* The kind of the persona_profiles row with this id: "system" is
\* is_system = True and is_custom = False, "custom" is is_system = False and
\* is_custom = True, "absent" is no row.
kind_of(persona_id) ==
    IF persona_id \in DOMAIN personas THEN personas[persona_id] ELSE "absent"

PersonaResponse(op, code, persona_id) ==
    [op |-> op, code |-> code, persona_id |-> persona_id]

\* DELETE /personas/{persona_id} (api/personas.py lines 114-138) and
\* PersonaService.delete_persona.  The HTTPException(404) for a missing
\* persona is raised inside the try block and caught by `except Exception`,
\* which answers 500.  db.delete(persona) deletes with the persona the
\* analyses rows that reference it: PersonaProfile.analyses is declared with
\* cascade="all, delete-orphan" (models.py line 30).  No session status is
\* touched.
delete_persona(persona_id, is_admin, is_creator) ==
    /\ IF kind_of(persona_id) = "absent"
       THEN /\ http' = PersonaResponse("delete_persona", 500, persona_id)
            /\ UNCHANGED <<personas, analyses>>
       ELSE IF \/ kind_of(persona_id) = "system" /\ ~is_admin
               \/ kind_of(persona_id) # "system" /\ ~is_creator
       THEN /\ http' = PersonaResponse("delete_persona", 403, persona_id)
            /\ UNCHANGED <<personas, analyses>>
       ELSE /\ personas' = [personas EXCEPT ![persona_id] = "absent"]
            /\ analyses' =
                   SelectSeq(analyses, LAMBDA a : a.persona_id # persona_id)
            /\ http' = PersonaResponse("delete_persona", 200, persona_id)
    /\ UNCHANGED <<selected, status, run, retry, runs, ra, agg, prompt, registry, modes, tasks, access>>

\* POST /admin/personas/{persona_id}/promote by an admin (api/admin.py lines
\* 53-72).  The persona is looked up with get_persona without user_email,
\* which returns only a system persona.
promote_persona_to_system(persona_id) ==
    /\ IF get_persona(persona_id) = {}
       THEN /\ http' = PersonaResponse("promote", 404, persona_id)
            /\ UNCHANGED personas
       ELSE IF kind_of(persona_id) = "system"
       THEN /\ http' = PersonaResponse("promote", 400, persona_id)
            /\ UNCHANGED personas
       ELSE /\ personas' = [personas EXCEPT ![persona_id] = "system"]
            /\ http' = PersonaResponse("promote", 200, persona_id)
    /\ UNCHANGED <<selected, status, analyses, run, retry, runs, ra, agg, prompt, registry, modes, tasks, access>>

DeleteRequest ==
    /\ ~RunInProgress
    /\ \E persona_id \in 1..MaxPersonas, is_admin \in BOOLEAN, is_creator \in BOOLEAN :
           delete_persona(persona_id, is_admin, is_creator)

PromoteRequest ==
    /\ ~RunInProgress
    /\ \E persona_id \in 1..MaxPersonas : promote_persona_to_system(persona_id)

NextPersonas == StartRequest \/ RunStep \/ DeleteRequest \/ PromoteRequest

SpecPersonas == Init /\ [][NextPersonas]_vars

----------------------------------------------------------------------------
(* run_analysis on its own: one call, every maxAttempts up to MaxM *)

UnusedSession ==
    /\ selected = <<>>
    /\ personas = <<>>
    /\ InitIdle

InitRetry ==
    /\ UnusedSession
    /\ agg = IdleAgg
    /\ \E m \in 0..MaxM : ra = [IdleRa EXCEPT !.call = call_begin(m)]
    /\ prompt = IdlePrompt
    /\ registry = IdleRegistry
    /\ modes = IdleModes
    /\ tasks = IdleTasks
    /\ access = IdleAccess

\* The processes left behind when wait_for(process.communicate(), AI_TIMEOUT)
\* ends (lines 101-104): communicate() returns when the process has exited;
\* on the timeout wait_for cancels communicate() and raises TimeoutError, and
\* nothing terminates or kills the process, which goes on running.
after_wait_for(orphans, proc) ==
    IF proc.timed_out THEN orphans + 1 ELSE orphans

RaSpawn(started) ==
    /\ ra.call.pc = "spawn"
    /\ ra' = [call |-> on_spawn(ra.call, started),
              hist |-> IF started THEN ra.hist
                       ELSE Append(ra.hist, spawn_failure.kind),
              proc |-> NoProc,
              result |-> IF started THEN NoResult ELSE spawn_failure,
              orphans |-> ra.orphans,
              cancelled |-> ra.cancelled]
    /\ UNCHANGED <<personas, selected, status, analyses, run, retry, http, runs, agg, prompt, registry, modes, tasks, access>>

RaFinish(proc) ==
    /\ ra.call.pc = "wait"
    /\ ra' = [call |-> on_finish(ra.call, proc),
              hist |-> Append(ra.hist, attempt_body(proc).kind),
              proc |-> proc,
              result |-> attempt_body(proc),
              orphans |-> after_wait_for(ra.orphans, proc),
              cancelled |-> ra.cancelled]
    /\ UNCHANGED <<personas, selected, status, analyses, run, retry, http, runs, agg, prompt, registry, modes, tasks, access>>

RaWake ==
    /\ ra.call.pc = "sleep"
    /\ ra' = [ra EXCEPT !.call = on_wake(ra.call)]
    /\ UNCHANGED <<personas, selected, status, analyses, run, retry, http, runs, agg, prompt, registry, modes, tasks, access>>

\* A process that was left running after its attempt timed out exits on its
\* own.
RaOrphanExit ==
    /\ ra.orphans > 0
    /\ ra' = [ra EXCEPT !.orphans = ra.orphans - 1]
    /\ UNCHANGED <<personas, selected, status, analyses, run, retry, http, runs, agg, prompt, registry, modes, tasks, access>>

NextRetry ==
    \/ \E started \in BOOLEAN : RaSpawn(started)
    \/ \E proc \in ProcOutcomes : RaFinish(proc)
    \/ RaWake
    \/ RaOrphanExit

SpecRetry == InitRetry /\ [][NextRetry]_vars

\* The task that runs the call is cancelled.  A process the call was waiting
\* for is left running, as on a timeout.
RaCancel ==
    /\ Suspended(ra.call)
    /\ ra' = [ra EXCEPT
                 !.call = on_cancel(ra.call),
                 !.cancelled = TRUE,
                 !.orphans = IF ra.call.pc = "wait" THEN ra.orphans + 1
                             ELSE ra.orphans]
    /\ UNCHANGED <<personas, selected, status, analyses, run, retry, http, runs, agg, prompt, registry, modes, tasks, access>>

NextRetryCancel == NextRetry \/ RaCancel

\* run_analysis on its own, in a task that may be cancelled.
SpecRetryCancel == InitRetry /\ [][NextRetryCancel]_vars

----------------------------------------------------------------------------
(* _build_prompt on its own *)

\* The text of n characters whose i-th character is i.
Text(n) == [i \in 1..n |-> i]

TextLengths ==
    {0, 1, 2 * PROMPT_TEXT_LIMIT + 1}
        \cup ((PROMPT_TEXT_LIMIT - MaxOver)..(PROMPT_TEXT_LIMIT + MaxOver))

Profiles ==
    {<<>>,
     <<<<"name", "Pat">>, <<"role", "CISO">>>>,
     <<<<"name", "Sam">>, <<"pain_points", "budget">>>>}

InitPrompt ==
    /\ UnusedSession
    /\ ra = IdleRa
    /\ agg = IdleAgg
    /\ registry = IdleRegistry
    /\ modes = IdleModes
    /\ tasks = IdleTasks
    /\ access = IdleAccess
    /\ \E n \in TextLengths, profile \in Profiles :
           prompt = [IdlePrompt EXCEPT !.persona_profile = profile,
                                       !.document_text = Text(n)]

BuildPrompt ==
    /\ ~prompt.built
    /\ prompt' = [prompt EXCEPT
                     !.built = TRUE,
                     !.result = build_prompt(prompt.persona_profile,
                                             prompt.document_text)]
    /\ UNCHANGED <<personas, selected, status, analyses, run, retry, http, runs, ra, agg, registry, modes, tasks, access>>

NextPrompt == BuildPrompt

SpecPrompt == InitPrompt /\ [][NextPrompt]_vars

----------------------------------------------------------------------------
(* AIBackendFactory on its own *)

BackendNames == {"claude", "codex", "opencode", "gemini"}

InitRegistry ==
    /\ UnusedSession
    /\ ra = IdleRa
    /\ agg = IdleAgg
    /\ prompt = IdlePrompt
    /\ modes = IdleModes
    /\ tasks = IdleTasks
    /\ access = IdleAccess
    /\ \E probes \in [{backends[i] : i \in DOMAIN backends} -> Probes],
          default \in BackendNames,
          backend_name \in BackendNames \cup {None, ""} :
           registry = [IdleRegistry EXCEPT !.probes = probes,
                                           !.default = default,
                                           !.backend_name = backend_name]

ListAvailable ==
    /\ registry.listed = <<None>>
    /\ registry' = [registry EXCEPT
                       !.listed = list_available_backends(registry.probes)]
    /\ UNCHANGED <<personas, selected, status, analyses, run, retry, http, runs, ra, agg, prompt, modes, tasks, access>>

GetBackend ==
    /\ registry.got = Failure(None)
    /\ registry' = [registry EXCEPT
                       !.got = get_backend(registry.backend_name,
                                           registry.default, registry.probes)]
    /\ UNCHANGED <<personas, selected, status, analyses, run, retry, http, runs, ra, agg, prompt, modes, tasks, access>>

NextRegistry == ListAvailable \/ GetBackend

SpecRegistry == InitRegistry /\ [][NextRegistry]_vars

----------------------------------------------------------------------------
(* The two status aggregations on their own *)

RECURSIVE SeqsUpTo(_, _)
SeqsUpTo(S, n) ==
    IF n = 0 THEN {<<>>}
    ELSE SeqsUpTo(S, n - 1) \cup [1..n -> S]

InitAgg ==
    /\ UnusedSession
    /\ ra = IdleRa
    /\ \E sts \in SeqsUpTo(UnitStatuses, MaxAggUnits), prev \in JobStatuses :
           agg = [IdleAgg EXCEPT !.units = sts, !.prev = prev]
    /\ prompt = IdlePrompt
    /\ registry = IdleRegistry
    /\ modes = IdleModes
    /\ tasks = IdleTasks
    /\ access = IdleAccess

\* analyze_document aggregates its results list, which holds one completed
\* or failed entry per unit and at least one entry.
AggInline ==
    /\ agg.inline = None
    /\ Len(agg.units) >= 1
    /\ \A i \in DOMAIN agg.units : agg.units[i] \in TerminalStatuses
    /\ agg' = [agg EXCEPT !.inline = inline_status(agg.units)]
    /\ UNCHANGED <<personas, selected, status, analyses, run, retry, http, runs, ra, prompt, registry, modes, tasks, access>>

\* _update_session_status aggregates whatever rows the session has.
AggUpdate ==
    /\ agg.update = None
    /\ agg' = [agg EXCEPT !.update = update_session_status(agg.prev, agg.units)]
    /\ UNCHANGED <<personas, selected, status, analyses, run, retry, http, runs, ra, prompt, registry, modes, tasks, access>>

IndexPermutations(n) ==
    {f \in [1..n -> 1..n] : \A i, j \in 1..n : f[i] = f[j] => i = j}

\* _update_session_status is called once more on the same rows: on the job
\* as the first call left it, and on the job as it was with the rows in the
\* order perm.
AggUpdateAgain ==
    /\ agg.update # None /\ agg.again = None
    /\ \E perm \in IndexPermutations(Len(agg.units)) :
           agg' = [agg EXCEPT
                      !.perm = perm,
                      !.again = update_session_status(agg.update, agg.units),
                      !.permuted =
                          update_session_status(
                              agg.prev,
                              [i \in DOMAIN agg.units |-> agg.units[perm[i]]])]
    /\ UNCHANGED <<personas, selected, status, analyses, run, retry, http, runs, ra, prompt, registry, modes, tasks, access>>

NextAgg == AggInline \/ AggUpdate \/ AggUpdateAgain

SpecAgg == InitAgg /\ [][NextAgg]_vars

----------------------------------------------------------------------------
(* Properties *)

AllTerminal(sts) == \A i \in DOMAIN sts : sts[i] \in TerminalStatuses
AllAre(sts, v) == \A i \in DOMAIN sts : sts[i] = v

\* The job status the specification assigns to N >= 1 terminal units.
Aggregate(sts) ==
    IF AllAre(sts, "completed") THEN "completed"
    ELSE IF AllAre(sts, "failed") THEN "failed"
    ELSE "partial"

AggregatesRight(out, sts) ==
    /\ out = "completed" <=> AllAre(sts, "completed")
    /\ out = "failed" <=> AllAre(sts, "failed")
    /\ out = "partial" <=> ~AllAre(sts, "completed") /\ ~AllAre(sts, "failed")

\* C1: for every sequence of N >= 1 terminal unit statuses, the status computed
\* by the inline aggregation of analyze_document and the one computed by
\* _update_session_status are each "completed" iff every unit is completed,
\* "failed" iff every unit is failed, and "partial" otherwise.
C1_StatusAggregation ==
    (Len(agg.units) >= 1 /\ AllTerminal(agg.units)) =>
        /\ agg.inline # None => AggregatesRight(agg.inline, agg.units)
        /\ agg.update # None => AggregatesRight(agg.update, agg.units)

C1_Witness ==
    /\ Len(agg.units) = 3
    /\ agg.units[1] = "completed" /\ agg.units[2] = "failed"
    /\ agg.units[3] = "completed"
    /\ agg.prev = "analyzing"
    /\ agg.inline = "partial" /\ agg.update = "partial"

\* C2: after one analyze_document run and any number of retry calls, each
\* finished before the next begins, the persisted job status is the aggregate
\* of the persisted statuses of the job's units, all of which are terminal.
C2_JobStatusIsAggregate ==
    (/\ runs = 1 /\ run.pc = "done" /\ ~RetryInProgress
     /\ Len(analyses) >= 1 /\ AllTerminal(Statuses(analyses)))
        => status = Aggregate(Statuses(analyses))

C2_Witness ==
    /\ runs = 1 /\ run.pc = "done" /\ ~RetryInProgress
    /\ http = Response("retry", 200)
    /\ Len(analyses) = 2
    /\ AllAre(Statuses(analyses), "completed")
    /\ status = "completed"

----------------------------------------------------------------------------
(* Properties of the retry loop *)

MaxK == 4

\* The attempt results of a backend that times out exactly k times and then
\* succeeds.
Script(k) == [i \in 1..(k + 1) |-> IF i <= k THEN "timeout" ELSE "ok"]

IsPrefix(h, s) == Len(h) <= Len(s) /\ \A i \in DOMAIN h : h[i] = s[i]

Min(a, b) == IF a <= b THEN a ELSE b

\* C3: when run_analysis is over against a backend that times out exactly k
\* times and then succeeds, it has returned a result iff k < maxAttempts, and
\* it has invoked the external process min(k + 1, maxAttempts) times.
C3_RetryCount ==
    \A k \in 0..MaxK :
        (CallOver(ra.call) /\ IsPrefix(ra.hist, Script(k))) =>
            /\ ra.call.pc = "returned" <=> k < ra.call.m
            /\ ra.call.made = Min(k + 1, ra.call.m)

C3_Witness ==
    /\ ra.call.pc = "returned" /\ ra.call.m = 3
    /\ ra.hist = Script(2)
    /\ ra.call.made = 3

\* C4: when run_analysis is over, it has slept 2^attempt seconds between
\* every failed attempt and the retry that followed it, and not after the
\* final attempt: the sleeps are [2^0, 2^1, ..., 2^(attempts-2)].
C4_BackoffSequence ==
    CallOver(ra.call) =>
        ra.call.sleeps = [i \in 1..(ra.call.made - 1) |-> 2 ^ (i - 1)]

ParseKinds == {"parse", "decode"}

\* C5: an attempt whose output cannot be parsed is not retried: it is the
\* last attempt of the call, and the call has failed.
C5_ParseFailureNotRetried ==
    \A i \in DOMAIN ra.hist :
        ra.hist[i] \in ParseKinds =>
            i = Len(ra.hist) /\ ra.call.pc = "raised" /\ ra.call.made = i

\* C5 as amended: every failed attempt that is not the last of maxAttempts is
\* followed by another one, whatever the failure, so the call fails only
\* after maxAttempts failed attempts; a backend whose output never parses
\* gets exactly maxAttempts attempts.
C5_EveryFailureRetried ==
    /\ \A i \in DOMAIN ra.hist :
           (ra.hist[i] # "ok" /\ i < ra.call.m) =>
               \/ Len(ra.hist) > i
               \/ ra.call.pc \in {"sleep", "spawn", "wait"}
    /\ ra.call.pc = "raised" =>
           /\ ra.call.made = ra.call.m
           /\ Len(ra.hist) = ra.call.m
           /\ \A i \in DOMAIN ra.hist : ra.hist[i] # "ok"

C5_Witness ==
    /\ ra.call.pc = "raised" /\ ra.call.m = 3
    /\ ra.hist = <<"parse", "parse", "parse">>
    /\ ra.call.made = 3
    /\ ra.call.err = ParseMsg

\* The message text the source builds for a failed attempt of each kind.
TextOfKind(kind) ==
    CASE kind = "timeout" -> TimeoutMsg.text
      [] kind = "process" -> ProcessMsg("").text
      [] kind = "parse" -> ParseMsg.text
      [] kind = "decode" -> JSONDecodeMsg.text
      [] kind = "notfound" -> NotFoundMsg.text

\* C7: when all maxAttempts attempts have failed, run_analysis fails with the
\* error of the last attempt, and the message carries the number of attempts
\* made.
C7_LastErrorWithAttemptCount ==
    (ra.call.pc = "raised" /\ ra.call.made >= 1) =>
        /\ ra.call.err.text = TextOfKind(ra.hist[Len(ra.hist)])
        /\ ra.call.err.attempts = {ra.call.made}

\* C7 as amended: when all maxAttempts attempts have failed, run_analysis
\* fails with the error of the last attempt (that attempt's own exception, or
\* the fixed timed-out message when the last attempt timed out), and the
\* message carries no attempt count.
C7_LastErrorNoAttemptCount ==
    (ra.call.pc = "raised" /\ ra.call.made >= 1) =>
        /\ ra.call.made = ra.call.m
        /\ ra.call.err.text = TextOfKind(ra.hist[Len(ra.hist)])
        /\ ra.call.err.attempts = {}

C7_Witness ==
    /\ ra.call.pc = "raised" /\ ra.call.m = 3
    /\ ra.hist = <<"process", "parse", "timeout">>
    /\ ra.call.err = TimeoutMsg
    /\ ra.call.sleeps = <<1, 2>>

----------------------------------------------------------------------------
(* Properties of the job run and of the unit retry *)

Calls == {run.call, retry.call}

\* C6: when the backend command cannot be located at backend initialisation
\* the job is marked failed, and when it cannot be started at the moment of an
\* attempt no retry is made and the call fails at once.
C6_UnavailableBackendFailsWithoutRetry ==
    /\ http = Response("start", 500) => status = "failed"
    /\ \A c \in Calls :
           c.last = "notfound" => c.pc = "raised" /\ c.made = 1

\* C8: a unit whose execution has finished, in the loop of the job run or in
\* a retry, is completed or failed: never running or pending.
C8_FinishedUnitIsTerminal ==
    /\ \A j \in DOMAIN run.units :
           (run.pc \in {"call", "unit_done"} /\ j < run.idx) =>
               analyses[run.units[j]].status \in TerminalStatuses
    /\ retry.pc = "update" =>
           analyses[retry.unit].status \in TerminalStatuses
    /\ (~RunInProgress /\ ~RetryInProgress) => AllTerminal(Statuses(analyses))

C8_Witness ==
    /\ run.pc = "unit_done" /\ run.idx = 2
    /\ run.call.pc = "returned" /\ run.call.payload = "nondict"
    /\ analyses[run.units[1]].status = "failed"
    /\ analyses[run.units[1]].error_message = AttributeMsg

\* C9: a backend failure of a unit is recorded in that unit (a call that timed
\* out on its last attempt leaves the timed-out message) and does not abort the
\* job run: the run reaches its aggregation with one terminal result per
\* unit, analyze_document raises only for having no valid persona, before any
\* unit exists, and a run of two units ending completed and failed leaves the
\* job partial.
C9_FailureIsolation ==
    /\ run.pc = "raised" =>
           run.exc = "No valid personas selected" /\ run.units = <<>>
    /\ (run.pc = "unit_done" /\ run.call.pc = "raised") =>
           LET u == analyses[run.units[run.idx - 1]] IN
           /\ u.status = "failed"
           /\ u.error_message = run.call.err
           /\ run.call.last = "timeout" => u.error_message = TimeoutMsg
    /\ (run.pc = "unit_done" /\ run.idx > Len(run.units)) =>
           /\ Len(run.results) = Len(run.units)
           /\ \A j \in DOMAIN run.units :
                  /\ run.results[j] \in TerminalStatuses
                  /\ analyses[run.units[j]].status = run.results[j]
    /\ (/\ run.pc = "done" /\ http = Response("start", 200) /\ ~RetryInProgress
        /\ Len(run.units) = 2
        /\ analyses[run.units[1]].status = "completed"
        /\ analyses[run.units[2]].status = "failed")
           => status = "partial"

C9_Witness ==
    /\ run.pc = "done" /\ http = Response("start", 200) /\ ~RetryInProgress
    /\ Len(run.units) = 2
    /\ analyses[run.units[1]].status = "completed"
    /\ analyses[run.units[2]].status = "failed"
    /\ analyses[run.units[2]].error_message = TimeoutMsg
    /\ status = "partial"

HasResult(u) ==
    \/ u.score_json # None
    \/ u.top_issues_json # None
    \/ u.rewritten_suggestions_json # None

HasError(u) == u.error_message # NoError

\* C10: in every state each unit has a result iff its status is completed and
\* an error message iff its status is failed, and never both.
C10_ResultXorError ==
    \A i \in DOMAIN analyses :
        /\ HasResult(analyses[i]) <=> analyses[i].status = "completed"
        /\ HasError(analyses[i]) <=> analyses[i].status = "failed"
        /\ ~(HasResult(analyses[i]) /\ HasError(analyses[i]))

C10_Witness ==
    /\ retry.pc = "update"
    /\ analyses[retry.unit].status = "completed"
    /\ HasResult(analyses[retry.unit])
    /\ ~HasError(analyses[retry.unit])

----------------------------------------------------------------------------
(* Properties of the unit life cycle *)

\* C11: in every step a unit's status stays as it is or changes along
\* pending -> running, running -> completed, running -> failed, or
\* failed -> running in the step in which a retry call of that unit begins;
\* so a completed unit never changes status again and no unit goes from
\* pending directly to a terminal status.
C11_StatusTransitions ==
    [][\A i \in DOMAIN analyses :
           analyses'[i].status # analyses[i].status =>
               \/ /\ analyses[i].status = "pending"
                  /\ analyses'[i].status = "running"
               \/ /\ analyses[i].status = "running"
                  /\ analyses'[i].status \in TerminalStatuses
               \/ /\ analyses[i].status = "failed"
                  /\ analyses'[i].status = "running"
                  /\ retry.pc = "idle" /\ retry'.pc = "call"
                  /\ retry'.unit = i]_vars

C11_Witness ==
    /\ retry.pc = "call" /\ retry.call.pc = "spawn" /\ retry.call.made = 0
    /\ analyses[retry.unit].status = "running"
    /\ \E j \in DOMAIN analyses : analyses[j].status = "completed"

\* C12: whenever a unit's status is completed, its completed_at timestamp has
\* been set, after a job run and after a retry.
C12_CompletedAtStamped ==
    \A i \in DOMAIN analyses :
        analyses[i].status = "completed" => analyses[i].completed_at # None

----------------------------------------------------------------------------
(* Properties of the start of a job run *)

\* C13: when no selected persona id resolves (the selection may be empty),
\* an analyze_document run that has passed its persona resolution has failed
\* with the no-valid-personas error, the job status is failed, no unit
\* exists and the backend has not been invoked.
C13_NoValidPersonas ==
    (resolve(selected, 1) = <<>> /\ run.pc \notin {"idle", "scheduled", "analyzing"})
        => /\ run.pc = "raised"
           /\ run.exc = "No valid personas selected"
           /\ status = "failed"
           /\ analyses = <<>> /\ run.units = <<>>
           /\ run.call = IdleCall /\ retry.call = IdleCall

C13_Witness ==
    /\ run.pc = "raised"
    /\ selected = <<1, 2>>
    /\ personas[1] = "absent" /\ personas[2] = "custom"
    /\ status = "failed" /\ analyses = <<>>
    /\ runs = 2

Resolves(persona_id) == get_persona(persona_id) # {}

\* The persona ids and the statuses of the units of the current job run.
RunPersonas == [j \in DOMAIN run.units |-> analyses[run.units[j]].persona_id]
RunStatuses == [j \in DOMAIN run.units |-> analyses[run.units[j]].status]

\* C14: when at least one selected persona id resolves, a run that has
\* passed its unit creation has not failed for want of personas and owns
\* exactly one unit per resolved id, in selection order, each a row of its
\* own, and none for an unresolved id; when the run is over, the job status
\* is the aggregate of the statuses of those units alone.
C14_OneUnitPerResolvedPersona ==
    (/\ \E i \in DOMAIN selected : Resolves(selected[i])
     /\ run.pc \notin {"idle", "scheduled", "analyzing"})
        => /\ run.pc # "raised"
           /\ RunPersonas = SelectSeq(selected, Resolves)
           /\ \A j, k \in DOMAIN run.units :
                  j < k => run.units[j] < run.units[k]
           /\ (run.pc = "done" /\ http = Response("start", 200)
                   /\ ~RetryInProgress)
                  => status = Aggregate(RunStatuses)

C14_Witness ==
    /\ selected = <<1, 2>>
    /\ personas[1] = "custom" /\ personas[2] = "system"
    /\ run.pc = "done" /\ http = Response("start", 200) /\ ~RetryInProgress
    /\ RunPersonas = <<2>>
    /\ Len(analyses) = 1
    /\ status = "completed"

\* C15: a step of a job run in which a unit leaves pending, or in which a
\* backend attempt is made, starts in a state where the job status is
\* analyzing and every unit of the run exists; the units not yet executed are
\* pending, so before the first unit becomes running all of them are pending
\* and no attempt has been made.
C15_JobStartOrdering ==
    [][(\/ \E i \in DOMAIN analyses :
              /\ analyses[i].status = "pending"
              /\ analyses'[i].status # "pending"
        \/ run'.call.made > run.call.made)
           => /\ status = "analyzing"
              /\ Len(run.units) = Len(SelectSeq(selected, Resolves))
              /\ run.units # <<>>
              /\ \A j \in DOMAIN run.units :
                     /\ run.units[j] \in DOMAIN analyses
                     /\ (j > run.idx \/ (j = run.idx /\ run.pc # "call"))
                            => analyses[run.units[j]].status = "pending"
              /\ run.idx = 1 /\ run.pc # "call" => run.call = IdleCall]_vars

C15_Witness ==
    /\ run.pc = "call" /\ run.idx = 1 /\ run.call.made = 1
    /\ Len(run.units) = 2
    /\ status = "analyzing"
    /\ analyses[run.units[1]].status = "running"
    /\ analyses[run.units[2]].status = "pending"
    /\ runs = 1

\* C16: while a job run executes its units, the units are taken in selection
\* order, at most one unit of the run is running, and a unit has left pending
\* only if every unit before it is completed or failed.
C16_SequentialOrder ==
    run.pc \in {"created", "call", "unit_done"} =>
        /\ RunPersonas = SelectSeq(selected, Resolves)
        /\ Cardinality({j \in DOMAIN run.units : RunStatuses[j] = "running"}) <= 1
        /\ \A j, k \in DOMAIN run.units :
               (j < k /\ RunStatuses[k] # "pending")
                   => RunStatuses[j] \in TerminalStatuses

C16_Witness ==
    /\ run.pc = "call" /\ run.call.pc = "wait"
    /\ selected = <<1, 2>>
    /\ RunPersonas = <<1, 2>>
    /\ RunStatuses = <<"failed", "running">>

----------------------------------------------------------------------------
(* Properties of the unit retry *)

\* C17: a retry request that is answered 400 found a unit that is not failed,
\* and its step changes no unit, not the job status, and neither the job run
\* nor the retry call, so no backend attempt is made; and a retry call begins
\* only on a unit whose status is failed.
C17_RetryNeedsFailedUnit ==
    [][/\ (http' = Response("retry", 400) /\ http' # http)
              => /\ \E p \in 1..MaxPersonas :
                        /\ first_analysis(p) # 0
                        /\ analyses[first_analysis(p)].status # "failed"
                 /\ UNCHANGED <<analyses, status, run, retry>>
       /\ (retry.pc = "idle" /\ retry'.pc # "idle")
              => analyses[retry'.unit].status = "failed"]_vars

C17_Witness ==
    /\ http = Response("retry", 400)
    /\ run.pc = "call" /\ run.idx = 1 /\ run.call.made = 0
    /\ RunStatuses = <<"running", "pending">>
    /\ retry = IdleRetry /\ status = "analyzing"

\* C18: the step that begins a retry call makes the unit running with its
\* error cleared, and the step that ends a retry call, whether the re-run
\* succeeded or failed, leaves the job status equal to the aggregate of the
\* statuses of all units of the job; so a successful retry of the only
\* failed unit leaves the job completed, and a successful retry of one of
\* several failed units leaves it partial.
C18_RetryReaggregates ==
    [][/\ (retry.pc = "idle" /\ retry'.pc # "idle")
              => /\ analyses'[retry'.unit].status = "running"
                 /\ analyses'[retry'.unit].error_message = NoError
       /\ (retry.pc # "idle" /\ retry'.pc = "idle")
              => /\ AllTerminal(Statuses(analyses'))
                 /\ status' = Aggregate(Statuses(analyses'))]_vars

----------------------------------------------------------------------------
(* Termination of a job run *)

RunOver ==
    /\ run.pc \in {"done", "raised"}
    /\ status \in {"completed", "partial", "failed"}
    /\ AllTerminal(RunStatuses)

\* C19: when every attempt ends (the process returns or the timeout fires)
\* and the task is not cancelled, a job run that has been started leads to a
\* state where the run is over, the job status is completed, partial or
\* failed and every unit of the run is completed or failed; and no
\* run_analysis call makes more than maxAttempts attempts.
C19_JobTerminates ==
    /\ [](\A c \in Calls : c.made <= AI_RETRY_ATTEMPTS)
    /\ (run.pc = "scheduled") ~> RunOver

C19_Witness ==
    /\ RunOver /\ run.pc = "done"
    /\ RunStatuses = <<"failed", "completed">>
    /\ analyses[run.units[1]].error_message = ParseMsg
    /\ status = "partial"

----------------------------------------------------------------------------
(* Classification of one attempt *)

\* What the stdout texts of the model hold: whether the whole text is a JSON
\* document, and the contents of its fenced blocks in order.
IsJSON(text) == text \in {"json_object", "json_object_sparse", "json_array"}

FencedBlocks(text) ==
    CASE text = "fenced_json" -> <<"json_object">>
      [] text = "fenced_garbage" -> <<"garbage">>
      [] text = "fenced_garbage_fenced_json" -> <<"garbage", "json_object">>
      [] OTHER -> <<>>

Attempted == ra.proc # NoProc

\* The parts of the classification that do not depend on the fenced blocks.
ClassifiedUpToFence(p, r) ==
    /\ p.timed_out => r.kind = "timeout"
    /\ (~p.timed_out /\ p.returncode # 0) =>
           /\ r.kind = "process"
           /\ p.stderr # "" => r.err.stderr = p.stderr
    /\ (~p.timed_out /\ p.returncode = 0 /\ IsJSON(p.stdout)) =>
           r = Ok(json_loads(p.stdout))

\* C20: an attempt whose process was started fails as a timeout when the
\* timeout elapsed, as a process error quoting stderr when the exit code is
\* not zero, whatever stdout holds, and as a parse error when the exit code is
\* zero and neither the whole output nor any fenced block in it is JSON;
\* otherwise it succeeds with the parsed payload, the whole output if that is
\* JSON and else a fenced block that is.
C20_AttemptClassification ==
    Attempted =>
        LET p == ra.proc
            r == ra.result
            bs == FencedBlocks(p.stdout) IN
        /\ ClassifiedUpToFence(p, r)
        /\ (~p.timed_out /\ p.returncode = 0 /\ ~IsJSON(p.stdout)) =>
               IF \E i \in DOMAIN bs : IsJSON(bs[i])
               THEN \E i \in DOMAIN bs :
                        IsJSON(bs[i]) /\ r = Ok(json_loads(bs[i]))
               ELSE r.kind \in ParseKinds

\* C20 as amended: the same, with only the first fenced block of the output
\* tried: when the whole output is not JSON, the attempt succeeds with the
\* content of the first fenced block if that is JSON, and fails as a parse
\* error if there is no fenced block or the first one is not JSON, whatever
\* later blocks hold.
C20_FirstFencedBlockOnly ==
    Attempted =>
        LET p == ra.proc
            r == ra.result
            bs == FencedBlocks(p.stdout) IN
        /\ ClassifiedUpToFence(p, r)
        /\ (~p.timed_out /\ p.returncode = 0 /\ ~IsJSON(p.stdout)) =>
               IF bs # <<>> /\ IsJSON(bs[1])
               THEN r = Ok(json_loads(bs[1]))
               ELSE r.kind \in ParseKinds

C20_Witness ==
    /\ Attempted
    /\ ~ra.proc.timed_out /\ ra.proc.returncode = 0
    /\ ra.proc.stdout = "fenced_garbage_fenced_json"
    /\ ra.result = Raised("decode", JSONDecodeMsg)
    /\ ra.call.pc = "sleep"

----------------------------------------------------------------------------
(* External processes of one run_analysis call *)

\* The number of external processes of the call that are alive: the one the
\* current attempt waits for, and those left by earlier attempts.
Alive == ra.orphans + (IF ra.call.pc = "wait" THEN 1 ELSE 0)

\* C21: the process of an attempt that timed out is terminated before the
\* attempt reports the timeout: no process of an earlier attempt is alive
\* when an attempt has ended, and at no time are two processes of the call
\* alive.
C21_OneProcessAtATime ==
    /\ Alive <= 1
    /\ ra.call.pc # "wait" => Alive = 0

----------------------------------------------------------------------------
(* Cancellation *)

\* C23: from the step in which a cancellation arrives, during an attempt or
\* during a backoff sleep, the call starts no further attempt and takes no
\* further backoff sleep, and it is not suspended in either any more.
C23_CancelAbortsRetryLoop ==
    [][ra'.cancelled =>
           /\ ra'.call.made = ra.call.made
           /\ ra'.call.sleeps = ra.call.sleeps
           /\ ~Suspended(ra'.call)]_vars

C23_Witness ==
    /\ ra.cancelled /\ ra.call.pc = "cancelled"
    /\ ra.call.m = 3 /\ ra.call.made = 1 /\ ra.call.attempt = 0
    /\ ra.hist = <<"process">> /\ ra.call.sleeps = <<1>>

\* C22: when a job run has been cancelled during the execution of a unit,
\* that unit is failed with a cancellation error, no unit of the run is
\* running, and the units that were completed before are still completed.
C22_CancelMarksUnitFailed ==
    (run.pc = "cancelled" /\ run.units # <<>>) =>
        /\ analyses[run.units[run.idx]].status = "failed"
        /\ analyses[run.units[run.idx]].error_message = CancelledMsg
        /\ \A j \in DOMAIN run.units : RunStatuses[j] # "running"
        /\ \A j \in 1..(run.idx - 1) : RunStatuses[j] = run.results[j]

----------------------------------------------------------------------------
(* Properties of the prompt *)

\* C24: the document text embedded in the prompt is the first 8000
\* characters of the input when the input is longer and the whole input
\* otherwise, and every item of the persona profile is embedded.
C24_TextTruncatedProfileWhole ==
    prompt.built =>
        LET text == prompt.document_text
            got == prompt.result.marketing_content IN
        /\ Len(text) <= 8000 => got = text
        /\ Len(text) > 8000 =>
               /\ Len(got) = 8000
               /\ \A i \in 1..8000 : got[i] = text[i]
        /\ Len(prompt.result.persona) = Len(prompt.persona_profile)
        /\ \A i \in DOMAIN prompt.persona_profile :
               /\ prompt.result.persona[i][1] =
                      "\"" \o prompt.persona_profile[i][1] \o "\": "
               /\ prompt.result.persona[i][2] = prompt.persona_profile[i][2]

C24_Witness ==
    /\ prompt.built
    /\ Len(prompt.document_text) = 2 * 8000 + 1
    /\ Len(prompt.result.marketing_content) = 8000
    /\ Len(prompt.persona_profile) = 2
    /\ prompt.result.persona_role = "Unknown"

----------------------------------------------------------------------------
(* Properties of the backend registry *)

ProbeSaysAvailable(name) == registry.probes[name] = "returns"

\* The name get_backend was asked for: the configured default when no name
\* was given.
Wanted ==
    IF registry.backend_name \in {None, ""} THEN registry.default
    ELSE registry.backend_name

\* C25: list_available_backends returns exactly the registered names whose
\* probe reports available (a probe that raises counts as unavailable);
\* get_backend returns an instance, of the variant asked for or of the
\* configured default when no name was given, exactly when that variant is
\* registered and its probe reports available, and fails otherwise.
C25_BackendRegistry ==
    /\ registry.listed # <<None>> =>
           /\ {registry.listed[i] : i \in DOMAIN registry.listed} =
                  {name \in {"claude", "codex", "opencode"} :
                       ProbeSaysAvailable(name)}
           /\ Len(registry.listed) =
                  Cardinality({registry.listed[i] : i \in DOMAIN registry.listed})
    /\ registry.got # Failure(None) =>
           IF Wanted \in {"claude", "codex", "opencode"} /\ ProbeSaysAvailable(Wanted)
           THEN registry.got = Instance(Wanted)
           ELSE ~registry.got.ok /\ registry.got.instance = None

C25_Witness ==
    /\ registry.backend_name = None /\ registry.default = "codex"
    /\ registry.probes["claude"] = "PermissionError"
    /\ registry.probes["codex"] = "returns"
    /\ registry.probes["opencode"] = "FileNotFoundError"
    /\ registry.listed = <<"codex">>
    /\ registry.got = Instance("codex")

----------------------------------------------------------------------------
(* Algebra of the status aggregation *)

\* C26: applying the status aggregation a second time to the same units
\* leaves the job status the first application gave, and applying it to the
\* units in any other order gives the same job status.
C26_AggregationIdempotentOrderFree ==
    agg.again # None =>
        /\ agg.again = agg.update
        /\ agg.permuted = agg.update

C26_Witness ==
    /\ agg.units = <<"failed", "completed", "running">>
    /\ agg.perm = <<3, 1, 2>>
    /\ agg.prev = "analyzing"
    /\ agg.update = "partial" /\ agg.again = "partial"
    /\ agg.permuted = "partial"

----------------------------------------------------------------------------
(* Units and personas *)

\* C27: after any sequence of start-analysis and retry requests the job has
\* at most one unit per persona.
C27_OneUnitPerPersona ==
    \A i, j \in DOMAIN analyses :
        analyses[i].persona_id = analyses[j].persona_id => i = j

\* C28: a step that deletes a persona leaves every unit of the job, those
\* that reference the persona included, and the job status as they were.
C28_DeletePersonaKeepsUnits ==
    [][(\E p \in DOMAIN personas :
            personas[p] # "absent" /\ personas'[p] = "absent")
           => /\ analyses' = analyses
              /\ status' = status]_vars

\* C30: after a promote request for an existing persona the persona is a
\* system persona and no custom persona, and the request was answered with
\* success, or with 400 for a persona that was a system persona already.
C30_PromoteCustomPersona ==
    (http.op = "promote" /\ kind_of(http.persona_id) # "absent") =>
        /\ kind_of(http.persona_id) = "system"
        /\ http.code \in {200, 400}

\* C29: run with sequential = False and with sequential = True for the same
\* job, personas and backend behaviour, analyze_document creates units for
\* the same personas, and once both runs are over every unit has the same
\* terminal status and the same outcome columns in both and the job status
\* is the same; in either run the job status leaves "analyzing" for a job
\* with units only when every unit is terminal.
C29_ParallelAsSequential ==
    LET s == modes.job[TRUE]
        p == modes.job[FALSE] IN
    /\ (s.analyses # <<>> /\ p.analyses # <<>>) =>
           [i \in DOMAIN s.analyses |-> s.analyses[i].persona_id]
               = [i \in DOMAIN p.analyses |-> p.analyses[i].persona_id]
    /\ (JobOver(s) /\ JobOver(p)) =>
           /\ s.analyses = p.analyses
           /\ s.status = p.status
           /\ s.pc = p.pc
    /\ \A b \in BOOLEAN :
           /\ (modes.job[b].status \in {"completed", "partial", "failed"}
                   /\ modes.job[b].analyses # <<>>) =>
                  AllTerminal(Statuses(modes.job[b].analyses))
           /\ modes.job[b].pc = "done" =>
                  /\ AllTerminal(Statuses(modes.job[b].analyses))
                  /\ modes.job[b].status
                         = Aggregate(Statuses(modes.job[b].analyses))

\* Both runs are over for a job of two units of which the first failed and
\* the second completed.
C29_Witness ==
    /\ modes.job[TRUE].pc = "done"
    /\ modes.job[FALSE].pc = "done"
    /\ Statuses(modes.job[FALSE].analyses) = <<"failed", "completed">>
    /\ modes.job[FALSE].status = "partial"

\* C35: a job whose selected personas are all visible to the owner through
\* the persona API (system personas and the owner's custom personas), the
\* selection of custom personas only included, gets one unit per selected
\* persona and does not fail with "No valid personas selected".
C35_VisiblePersonasResolve ==
    (/\ selected # <<>>
     /\ \A i \in DOMAIN selected : personas[selected[i]] \in {"system", "custom"}
     /\ run.pc \notin {"idle", "scheduled", "analyzing"}) =>
        /\ run.pc # "raised"
        /\ Len(run.units) = Len(selected)

TasksCreated == {t \in 1..MaxTasks : tasks.run[t].pc # "idle"}

\* C31: when the one analyze_document task of a job and a retry call that
\* began while the task was running are both over, the job status is the
\* aggregate of the unit statuses.
C31_NoLostUpdate ==
    (/\ tasks.overlapped
     /\ Cardinality(TasksCreated) = 1
     /\ \A t \in TasksCreated : tasks.run[t].pc = "done"
     /\ tasks.retry.pc = "idle") =>
        status = Aggregate(Statuses(analyses))

\* C32: while an analyze_document task has marked the job analyzing and has
\* a unit that is not terminal, the job status is "analyzing", whatever
\* retry calls interleave with the task.
C32_AnalyzingUntilUnitsTerminal ==
    \A t \in 1..MaxTasks :
        tasks.run[t].pc = "call" => status = "analyzing"

\* C33: at most one analyze_document task of the job is pending or running.
C33_OneRunAtATime ==
    Cardinality({t \in 1..MaxTasks : TaskInProgress(t)}) <= 1

Downgrade(before, after) ==
    \/ before = "completed" /\ after \in {"partial", "failed"}
    \/ before = "partial" /\ after = "failed"

\* C34: with the requests sent one at a time, the step in which a
\* retry_failed_analysis call ends does not take the job status from
\* completed to partial or failed, nor from partial to failed.
C34_RetryNeverDowngrades ==
    [][(tasks.retry.pc = "call" /\ tasks'.retry.pc = "idle")
           => ~Downgrade(status, status')]_vars

\* C36: when a request for an existing session is answered, a start, retry,
\* share or delete request is refused with 403 exactly when its user is not
\* the owner of the session, be it an admin or a user the session is shared
\* with; a read is answered with 200 exactly for the owner, the users the
\* session is shared with and admins, and with 403 otherwise; and a request
\* that is refused, like a read, leaves the session, its share list, its
\* units and its tasks as they were.
C36_SessionAccessControl ==
    [][(Pending /\ http' # NoResponse) =>
           LET r == access.request
               owner == access.user_email = r.user IN
           /\ (access.exists /\ r.op \in {"start", "retry", "share", "delete"})
                  => (http'.code = 403 <=> ~owner)
           /\ (access.exists /\ r.op = "get") =>
                  /\ http'.code \in {200, 403}
                  /\ http'.code = 200 <=>
                         \/ owner
                         \/ r.user \in access.share_with_emails
                         \/ r.user = "root"
           /\ (http'.code \in {400, 403, 404} \/ r.op = "get") =>
                  UNCHANGED <<status, analyses, selected, tasks, access>>]_vars

\* A user the session is shared with was refused the retry of a failed unit,
\* which is still failed.
C36_Witness ==
    /\ access.exists
    /\ access.request.op = "retry"
    /\ access.request.user \in access.share_with_emails
    /\ access.request.user # access.user_email
    /\ http = Response("retry", 403)
    /\ \E i \in DOMAIN analyses : analyses[i].status = "failed"

\* C37: a create_session request with an empty persona selection is answered
\* with 400 and leaves no session.
C37_EmptySelectionRejected ==
    (/\ access.request.op = "create"
     /\ access.request.form = "[]"
     /\ http # NoResponse) =>
        /\ http = Response("create", 400)
        /\ ~access.exists

====
